---- MODULE Spec2Model ----
(***************************************************************************)
(* A model of the batch-scheduler simulator: the threaded ordered map      *)
(* (sched_model/tree: base, AVL and red-black nodes), the Timeline built   *)
(* on it, the Job state machine, the System and the scheduling policies.   *)
(*                                                                         *)
(* The ordered map is modelled as a heap of nodes (ids -> fields) so that  *)
(* rotations, unlinking and the prev/next threading are the pointer        *)
(* surgery of the source.  The Timeline is modelled on the map's contents  *)
(* (key -> TimelineData), using the bound operators as the tree computes   *)
(* them.                                                                   *)
(***************************************************************************)
EXTENDS Integers, Sequences, FiniteSets, TLC

\* ------------------------------------------------------------------ bounds
\* keys of the ordered-map state machine are 1..NKeys
NKeys == 5
\* values stored in the ordered-map state machine are 1..NVals
NVals == 2

\* ------------------------------------------------------- Python constants
\* Python's None, where a node reference or a key bound is expected
NIL == 0 - 1
\* the id of the tree's SentinelNode in the heap
Sentinel == 0
\* Python's None, where a stored value is expected (TreeNode.value = None)
NoVal == 0

Keys == 1..NKeys
Vals == 1..NVals

\* a local variable of the source: F applied to the value v it is assigned
Bind(v, F(_)) == F(v)

VARIABLES
  tree,      \* the Tree object: [cls, root, len, nodes]
  ref,       \* the reference dictionary of the map state machine
  ret,       \* what the last map operation returned (or raised)
  refRet     \* what the reference dictionary returned for the same operation

treeVars == <<tree, ref, ret, refRet>>

VARIABLES
  cur_time,                \* System.cur_time
  jobs_enqueued,           \* System._jobs_enqueued
  should_run_sched_loop,   \* System._should_run_sched_loop
  jobs,                    \* the Job objects enqueued so far, by job_id
  pending_jobs,            \* System.pending_jobs (deque of job ids)
  finished_jobs,           \* System.finished_jobs (deque of job ids)
  reserved_jobs,           \* System.reserved_jobs (list of job ids)
  timeline,                \* System._timeline._tree: key -> TimelineData
  err,                     \* the exception that ended the program, or NoErr
  policy,                  \* the sched_policy the driver passes
  in_run,                  \* System.run is executing
  pc,                      \* the position inside System.tick while in run
  last                     \* how the driver's last call ended

sysVars == <<cur_time, jobs_enqueued, should_run_sched_loop, jobs, pending_jobs,
             finished_jobs, reserved_jobs, timeline, err, policy, in_run, pc, last>>

vars == <<tree, ref, ret, refRet, cur_time, jobs_enqueued, should_run_sched_loop,
          jobs, pending_jobs, finished_jobs, reserved_jobs, timeline, err, policy,
          in_run, pc, last>>

\* ---------------------------------------------------------------- TreeNode

\* TreeNode._set_left_child
set_left_child(T, n, child) ==
  LET T1 == [T EXCEPT !.nodes[n].left = child]
  IN IF child # NIL THEN [T1 EXCEPT !.nodes[child].parent = n] ELSE T1

\* TreeNode._set_right_child
set_right_child(T, n, child) ==
  LET T1 == [T EXCEPT !.nodes[n].right = child]
  IN IF child # NIL THEN [T1 EXCEPT !.nodes[child].parent = n] ELSE T1

\* TreeNode._is_left_child
is_left_child(T, n) ==
  T.nodes[n].parent # NIL /\ T.nodes[T.nodes[n].parent].left = n

\* TreeNode._is_right_child
is_right_child(T, n) ==
  T.nodes[n].parent # NIL /\ T.nodes[T.nodes[n].parent].right = n

\* _copy_data that forgets the value: only the key is copied
copy_data_key_only(T, n, other) ==
  [T EXCEPT !.nodes[n].key = T.nodes[other].key]

\* TreeNode._copy_data
copy_data(T, n, other) ==
  [T EXCEPT !.nodes[n].key = T.nodes[other].key,
            !.nodes[n].value = T.nodes[other].value]

\* TreeNode._sibling
sibling(T, n) ==
  LET parent == T.nodes[n].parent
  IN IF parent = NIL THEN NIL
     ELSE IF T.nodes[parent].left = n THEN T.nodes[parent].right
     ELSE T.nodes[parent].left

\* TreeNode._rotate: n moves above its parent
TreeNode_rotate(T, n) ==
  LET parent == T.nodes[n].parent
      gp == T.nodes[parent].parent
      parent_was_left == is_left_child(T, parent)
  IN Bind(IF is_left_child(T, n)
          THEN set_right_child(set_left_child(T, parent, T.nodes[n].right), n, parent)
          ELSE set_left_child(set_right_child(T, parent, T.nodes[n].left), n, parent),
          LAMBDA T1 :
            IF gp # NIL
            THEN IF parent_was_left THEN set_left_child(T1, gp, n)
                 ELSE set_right_child(T1, gp, n)
            ELSE [T1 EXCEPT !.nodes[n].parent = NIL, !.root = n])

\* the heap without node n (its fields are cleared and it is dropped)
Free(nodes, n) == [i \in DOMAIN nodes \ {n} |-> nodes[i]]

\* _unlink that forgets self._next._prev = self._prev
unlink_keeps_prev(T, n, replace_with) ==
  LET nd == T.nodes[n]
      T1 == [T EXCEPT !.nodes[nd.prev].next = nd.next]
  IN Bind(T1, LAMBDA T2 :
       Bind(IF nd.parent # NIL
            THEN IF is_left_child(T2, n)
                 THEN set_left_child(T2, nd.parent, replace_with)
                 ELSE set_right_child(T2, nd.parent, replace_with)
            ELSE [(IF replace_with # NIL
                   THEN [T2 EXCEPT !.nodes[replace_with].parent = NIL]
                   ELSE T2) EXCEPT !.root = replace_with],
            LAMBDA T3 : [T3 EXCEPT !.nodes = Free(T3.nodes, n)]))

\* TreeNode._unlink
unlink(T, n, replace_with) ==
  LET nd == T.nodes[n]
      T1 == [T EXCEPT !.nodes[nd.prev].next = nd.next]
  IN Bind([T1 EXCEPT !.nodes[nd.next].prev = nd.prev], LAMBDA T2 :
       Bind(IF nd.parent # NIL
            THEN IF is_left_child(T2, n)
                 THEN set_left_child(T2, nd.parent, replace_with)
                 ELSE set_right_child(T2, nd.parent, replace_with)
            ELSE [(IF replace_with # NIL
                   THEN [T2 EXCEPT !.nodes[replace_with].parent = NIL]
                   ELSE T2) EXCEPT !.root = replace_with],
            LAMBDA T3 : [T3 EXCEPT !.nodes = Free(T3.nodes, n)]))

\* TreeNode._find_node; NIL stands for the KeyError
RECURSIVE find_node(_, _, _)
find_node(T, n, key) ==
  LET nd == T.nodes[n]
  IN IF nd.key = key THEN n
     ELSE IF key < nd.key
          THEN IF nd.left # NIL THEN find_node(T, nd.left, key) ELSE NIL
          ELSE IF nd.right # NIL THEN find_node(T, nd.right, key) ELSE NIL

\* ----------------------------------------------------------------- AVLNode

\* AVLNode._rotate: the balance factors after the rotation, then the rotation
AVLNode_rotate(T, n) ==
  LET parent == T.nodes[n].parent
      pb == T.nodes[parent].balance
      sb == T.nodes[n].balance
      left == is_left_child(T, n)
  IN Bind(IF left THEN (IF sb < 0 THEN pb + 1 - sb ELSE pb + 1)
          ELSE (IF sb > 0 THEN pb - 1 - sb ELSE pb - 1),
          LAMBDA new_parent_bal :
            Bind(IF left
                 THEN (IF new_parent_bal > 0 THEN sb + 1 + new_parent_bal ELSE sb + 1)
                 ELSE (IF new_parent_bal < 0 THEN sb - 1 + new_parent_bal ELSE sb - 1),
                 LAMBDA new_pivot_bal :
                   TreeNode_rotate(
                     [T EXCEPT !.nodes[n].balance = new_pivot_bal,
                               !.nodes[parent].balance = new_parent_bal], n)))

\* self._rotate(), by the node class of the tree
rotate(T, n) ==
  IF T.cls = "AVLNode" THEN AVLNode_rotate(T, n) ELSE TreeNode_rotate(T, n)

\* _rebalance that never rotates twice: the heavy child is always the pivot
AVLNode_rebalance_single(T, n) ==
  LET child == IF T.nodes[n].balance < 0 THEN T.nodes[n].left ELSE T.nodes[n].right
  IN [T |-> rotate(T, child), pivot |-> child]

\* AVLNode._rebalance: [T, pivot]
AVLNode_rebalance(T, n) ==
  LET b == T.nodes[n].balance
      child0 == IF b < 0 THEN T.nodes[n].left ELSE T.nodes[n].right
      cb == T.nodes[child0].balance
  IN Bind(IF b < 0 /\ cb > 0 THEN T.nodes[child0].right
          ELSE IF b > 0 /\ cb < 0 THEN T.nodes[child0].left
          ELSE child0,
          LAMBDA child :
            [T |-> rotate(IF child # child0 THEN rotate(T, child) ELSE T, child),
             pivot |-> child])

\* AVLNode._repair_insert
RECURSIVE AVLNode_repair_insert(_, _)
AVLNode_repair_insert(T, n) ==
  LET parent == T.nodes[n].parent
      old_bal == T.nodes[parent].balance
      left == is_left_child(T, n)
  IN IF parent = NIL THEN T
     ELSE Bind([T EXCEPT !.nodes[parent].balance = IF left THEN @ - 1 ELSE @ + 1],
               LAMBDA T1 :
                 IF (left /\ old_bal < 0) \/ (~left /\ old_bal > 0)
                 THEN AVLNode_rebalance(T1, parent).T
                 ELSE IF old_bal = 0 THEN AVLNode_repair_insert(T1, parent)
                 ELSE T1)

\* AVLNode._repair_delete
RECURSIVE AVLNode_repair_delete(_, _)
AVLNode_repair_delete(T, n) ==
  LET parent == T.nodes[n].parent
      left == is_left_child(T, n)
      nb == IF left THEN T.nodes[parent].balance + 1 ELSE T.nodes[parent].balance - 1
      rebalance_required == IF left THEN nb = 2 ELSE nb = 0 - 2
      sib == IF left THEN T.nodes[parent].right ELSE T.nodes[parent].left
  IN IF parent = NIL THEN T
     ELSE Bind([T EXCEPT !.nodes[parent].balance = nb], LAMBDA T1 :
            IF nb = 0 THEN AVLNode_repair_delete(T1, parent)
            ELSE IF rebalance_required
            THEN Bind(AVLNode_rebalance(T1, parent), LAMBDA R :
                   IF T1.nodes[sib].balance # 0
                   THEN AVLNode_repair_delete(R.T, R.pivot)
                   ELSE R.T)
            ELSE T1)

\* ------------------------------------------------------------------ RBNode

\* RBNode._repair_insert
RECURSIVE RBNode_repair_insert(_, _)
RBNode_repair_insert(T, n) ==
  LET parent == T.nodes[n].parent
  IN IF parent = NIL THEN [T EXCEPT !.nodes[n].red = FALSE]
     ELSE IF ~T.nodes[parent].red THEN T
     ELSE LET uncle == sibling(T, parent)
              grandparent == T.nodes[parent].parent
          IN IF uncle # NIL /\ T.nodes[uncle].red
             THEN RBNode_repair_insert(
                    [T EXCEPT !.nodes[parent].red = FALSE,
                              !.nodes[uncle].red = FALSE,
                              !.nodes[grandparent].red = TRUE], grandparent)
             ELSE LET inner == is_left_child(T, n) # is_left_child(T, parent)
                      p2 == IF inner THEN n ELSE parent
                  IN Bind(rotate(IF inner THEN rotate(T, n) ELSE T, p2),
                          LAMBDA T2 : [T2 EXCEPT !.nodes[p2].red = FALSE,
                                                 !.nodes[grandparent].red = TRUE])

\* RBNode._repair_delete: n is a black leaf about to be unlinked
RECURSIVE RBNode_repair_delete(_, _)
RBNode_repair_delete(T, n) ==
  IF T.nodes[n].parent = NIL THEN T
  ELSE
  LET parent == T.nodes[n].parent
      sib0 == sibling(T, n)
      red_sib == sib0 # NIL /\ T.nodes[sib0].red
  IN Bind(IF red_sib
          THEN rotate([T EXCEPT !.nodes[parent].red = TRUE,
                                !.nodes[sib0].red = FALSE], sib0)
          ELSE T, LAMBDA T1 :
     Bind(IF red_sib THEN sibling(T1, n) ELSE sib0, LAMBDA sib1 :
       LET s1 == T1.nodes[sib1]
           sib_left_black == s1.left = NIL \/ ~T1.nodes[s1.left].red
           sib_right_black == s1.right = NIL \/ ~T1.nodes[s1.right].red
           parent_red == T1.nodes[parent].red
           nleft == is_left_child(T1, n)
           near_left == ~s1.red /\ nleft /\ ~sib_left_black /\ sib_right_black
           near_right == ~s1.red /\ ~nleft /\ sib_left_black /\ ~sib_right_black
       IN IF ~parent_red /\ ~s1.red /\ sib_left_black /\ sib_right_black
          THEN RBNode_repair_delete([T1 EXCEPT !.nodes[sib1].red = TRUE], parent)
          ELSE IF parent_red /\ ~s1.red /\ sib_left_black /\ sib_right_black
          THEN [T1 EXCEPT !.nodes[sib1].red = TRUE, !.nodes[parent].red = FALSE]
          ELSE
          Bind(IF near_left
               THEN rotate([T1 EXCEPT !.nodes[sib1].red = TRUE,
                                      !.nodes[s1.left].red = FALSE], s1.left)
               ELSE IF near_right
               THEN rotate([T1 EXCEPT !.nodes[sib1].red = TRUE,
                                      !.nodes[s1.right].red = FALSE], s1.right)
               ELSE T1, LAMBDA T2 :
          Bind(IF near_left \/ near_right THEN sibling(T2, n) ELSE sib1,
               LAMBDA sib2 :
                 LET T3 == [T2 EXCEPT !.nodes[sib2].red = T2.nodes[parent].red]
                     T4 == [T3 EXCEPT !.nodes[parent].red = FALSE]
                     far == IF is_left_child(T4, n) THEN T4.nodes[sib2].right
                            ELSE T4.nodes[sib2].left
                 IN rotate([T4 EXCEPT !.nodes[far].red = FALSE], sib2)))))

\* ------------------------------------------------- insertion and deletion

\* self._repair_insert(), by the node class of the tree
repair_insert(T, n) ==
  IF T.cls = "AVLNode" THEN AVLNode_repair_insert(T, n)
  ELSE IF T.cls = "RBNode" THEN RBNode_repair_insert(T, n)
  ELSE T

\* self._repair_delete(), by the node class of the tree
repair_delete(T, n) ==
  IF T.cls = "AVLNode" THEN AVLNode_repair_delete(T, n)
  ELSE IF T.cls = "RBNode" THEN RBNode_repair_delete(T, n)
  ELSE T

\* the id the next constructed node gets: the smallest one not in the heap
FreshId(T) ==
  CHOOSE i \in 1..(Cardinality(DOMAIN T.nodes) + 1) :
    /\ i \notin DOMAIN T.nodes
    /\ \A j \in 1..(i - 1) : j \in DOMAIN T.nodes

\* TreeNode.__init__ (and AVLNode/RBNode.__init__): the node enters the
\* prev/next chain between prev and next
NewNode(T, id, key, parent, prev, next) ==
  LET nd == [key |-> key, value |-> NoVal, parent |-> parent,
             left |-> NIL, right |-> NIL, prev |-> prev, next |-> next,
             balance |-> 0, red |-> (T.cls = "RBNode" /\ parent # NIL)]
      N1 == T.nodes @@ (id :> nd)
      N2 == [N1 EXCEPT ![prev].next = id]
      N3 == [N2 EXCEPT ![next].prev = id]
  IN [T EXCEPT !.nodes = N3]

\* TreeNode._insert_node: [T, created, node]
RECURSIVE TreeNode_insert_node(_, _, _, _, _)
TreeNode_insert_node(T, n, key, prev, next) ==
  LET nd == T.nodes[n]
      id == FreshId(T)
  IN IF nd.key = key THEN [T |-> T, created |-> FALSE, node |-> n]
     ELSE IF key < nd.key
     THEN IF nd.left # NIL
          THEN TreeNode_insert_node(T, nd.left, key, prev, n)
          ELSE [T |-> repair_insert(
                        set_left_child(NewNode(T, id, key, n, prev, n), n, id), id),
                created |-> TRUE, node |-> id]
     ELSE IF nd.right # NIL
          THEN TreeNode_insert_node(T, nd.right, key, n, next)
          ELSE [T |-> repair_insert(
                        set_right_child(NewNode(T, id, key, n, n, next), n, id), id),
                created |-> TRUE, node |-> id]

RECURSIVE TreeNode_delete_node(_, _)
RECURSIVE TreeNode_delete_single_child(_, _)

\* _delete_single_child that unlinks a black leaf without _repair_delete
RBNode_delete_single_child_no_repair(T, n) ==
  LET nd == T.nodes[n]
  IN IF ~nd.red
     THEN IF nd.left # NIL
          THEN unlink([T EXCEPT !.nodes[nd.left].red = FALSE], n, nd.left)
          ELSE IF nd.right # NIL
          THEN unlink([T EXCEPT !.nodes[nd.right].red = FALSE], n, nd.right)
          ELSE unlink(T, n, NIL)
     ELSE unlink(T, n, NIL)

\* RBNode._delete_single_child
RBNode_delete_single_child(T, n) ==
  LET nd == T.nodes[n]
  IN IF ~nd.red
     THEN IF nd.left # NIL
          THEN unlink([T EXCEPT !.nodes[nd.left].red = FALSE], n, nd.left)
          ELSE IF nd.right # NIL
          THEN unlink([T EXCEPT !.nodes[nd.right].red = FALSE], n, nd.right)
          ELSE unlink(RBNode_repair_delete(T, n), n, NIL)
     ELSE unlink(T, n, NIL)

\* self._delete_single_child(), by the node class of the tree
delete_single_child(T, n) ==
  IF T.cls = "RBNode" THEN RBNode_delete_single_child(T, n)
  ELSE TreeNode_delete_single_child(T, n)

\* TreeNode._delete_single_child (the base class and AVLNode)
TreeNode_delete_single_child(T, n) ==
  LET nd == T.nodes[n]
  IN IF nd.left # NIL
     THEN TreeNode_delete_node(copy_data(T, n, nd.left), nd.left)
     ELSE IF nd.right # NIL
     THEN TreeNode_delete_node(copy_data(T, n, nd.right), nd.right)
     ELSE unlink(repair_delete(T, n), n, NIL)

\* TreeNode._delete_node
TreeNode_delete_node(T, n) ==
  LET nd == T.nodes[n]
  IN IF nd.left # NIL /\ nd.right # NIL
     THEN TreeNode_delete_node(copy_data(T, n, nd.next), nd.next)
     ELSE delete_single_child(T, n)

\* TreeNode._lower_bound: the node with the smallest key >= bound, else what
\* follows the last node visited (possibly the sentinel)
RECURSIVE TreeNode_lower_bound(_, _, _)
TreeNode_lower_bound(T, n, bound) ==
  LET nd == T.nodes[n]
  IN IF bound = nd.key THEN n
     ELSE IF bound < nd.key
     THEN IF nd.left # NIL THEN TreeNode_lower_bound(T, nd.left, bound) ELSE n
     ELSE IF nd.right # NIL THEN TreeNode_lower_bound(T, nd.right, bound)
          ELSE nd.next

\* _upper_bound that goes left only when bound < key, so that it finds the
\* node with the largest key <= bound
RECURSIVE TreeNode_upper_bound_inclusive(_, _, _)
TreeNode_upper_bound_inclusive(T, n, bound) ==
  LET nd == T.nodes[n]
  IN IF bound < nd.key
     THEN IF nd.left # NIL THEN TreeNode_upper_bound_inclusive(T, nd.left, bound)
          ELSE nd.prev
     ELSE IF nd.right # NIL THEN TreeNode_upper_bound_inclusive(T, nd.right, bound)
          ELSE n

\* TreeNode._upper_bound: the node with the largest key < bound, else what
\* precedes the last node visited (possibly the sentinel)
RECURSIVE TreeNode_upper_bound(_, _, _)
TreeNode_upper_bound(T, n, bound) ==
  LET nd == T.nodes[n]
  IN IF bound <= nd.key
     THEN IF nd.left # NIL THEN TreeNode_upper_bound(T, nd.left, bound)
          ELSE nd.prev
     ELSE IF nd.right # NIL THEN TreeNode_upper_bound(T, nd.right, bound)
          ELSE n

\* -------------------------------------------------------------------- Tree

\* Tree.__init__ with node class cls; heap entry 0 is the SentinelNode, of
\* which only prev and next are fields of the source
Tree_init(cls) ==
  [cls |-> cls, root |-> NIL, len |-> 0,
   nodes |-> (Sentinel :> [key |-> NIL, value |-> NoVal, parent |-> NIL,
                           left |-> NIL, right |-> NIL,
                           prev |-> Sentinel, next |-> Sentinel,
                           balance |-> 0, red |-> FALSE])]

\* Tree.get_node; NIL stands for the KeyError
Tree_get_node(T, key) ==
  IF T.root = NIL THEN NIL ELSE find_node(T, T.root, key)

\* Tree.get_or_insert_node: [T, created, node]
Tree_get_or_insert_node(T, key) ==
  IF T.root = NIL
  THEN LET id == FreshId(T)
           T1 == NewNode(T, id, key, NIL, Sentinel, Sentinel)
       IN [T |-> [T1 EXCEPT !.root = id, !.len = 1], created |-> TRUE, node |-> id]
  ELSE Bind(TreeNode_insert_node(T, T.root, key, Sentinel, Sentinel), LAMBDA R :
         IF R.created THEN [R EXCEPT !.T.len = @ + 1] ELSE R)

\* what an operation hands back: a value, a (key, value) pair or an exception
RetVal(v) == [kind |-> "value", k |-> 0, v |-> v]
RetPair(k, v) == [kind |-> "pair", k |-> k, v |-> v]
RetRaise(exc) == [kind |-> exc, k |-> 0, v |-> NoVal]

\* Tree.insert: [T, ret], ret the previous value (None for a new key)
Tree_insert(T, key, val) ==
  Bind(Tree_get_or_insert_node(T, key), LAMBDA R :
    [T |-> [R.T EXCEPT !.nodes[R.node].value = val],
     ret |-> RetVal(R.T.nodes[R.node].value)])

\* Tree.__setitem__
Tree_setitem(T, key, val) ==
  [T |-> Tree_insert(T, key, val).T, ret |-> RetVal(NoVal)]

\* Tree.__getitem__
Tree_getitem(T, key) ==
  Bind(Tree_get_node(T, key), LAMBDA n :
    IF n = NIL THEN [T |-> T, ret |-> RetRaise("KeyError")]
    ELSE [T |-> T, ret |-> RetVal(T.nodes[n].value)])

\* __delitem__ that counts the entry off before looking it up
Tree_delitem_len_first(T, key) ==
  Bind(Tree_get_node(T, key), LAMBDA n :
    IF n = NIL THEN [T |-> [T EXCEPT !.len = @ - 1], ret |-> RetRaise("KeyError")]
    ELSE [T |-> [TreeNode_delete_node(T, n) EXCEPT !.len = @ - 1],
          ret |-> RetVal(NoVal)])

\* Tree.__delitem__
Tree_delitem(T, key) ==
  LET n == Tree_get_node(T, key)
  IN IF n = NIL THEN [T |-> T, ret |-> RetRaise("KeyError")]
     ELSE [T |-> [TreeNode_delete_node(T, n) EXCEPT !.len = @ - 1],
           ret |-> RetVal(NoVal)]

\* Tree.pop without a default
Tree_pop(T, key) ==
  LET n == Tree_get_node(T, key)
  IN IF n = NIL THEN [T |-> T, ret |-> RetRaise("KeyError")]
     ELSE [T |-> [TreeNode_delete_node(T, n) EXCEPT !.len = @ - 1],
           ret |-> RetVal(T.nodes[n].value)]

\* Tree._first_node; the sentinel stands for the IndexError
Tree_first_node(T) == T.nodes[Sentinel].next

\* Tree._last_node; the sentinel stands for the IndexError
Tree_last_node(T) == T.nodes[Sentinel].prev

\* Tree.min
Tree_min(T) ==
  Bind(Tree_first_node(T), LAMBDA n :
    IF n = Sentinel THEN [T |-> T, ret |-> RetRaise("IndexError")]
    ELSE [T |-> T, ret |-> RetPair(T.nodes[n].key, T.nodes[n].value)])

\* Tree.max
Tree_max(T) ==
  Bind(Tree_last_node(T), LAMBDA n :
    IF n = Sentinel THEN [T |-> T, ret |-> RetRaise("IndexError")]
    ELSE [T |-> T, ret |-> RetPair(T.nodes[n].key, T.nodes[n].value)])

\* Tree.pop_min
Tree_pop_min(T) ==
  LET n == Tree_first_node(T)
  IN IF n = Sentinel THEN [T |-> T, ret |-> RetRaise("IndexError")]
     ELSE [T |-> [TreeNode_delete_node(T, n) EXCEPT !.len = @ - 1],
           ret |-> RetPair(T.nodes[n].key, T.nodes[n].value)]

\* Tree.pop_max
Tree_pop_max(T) ==
  LET n == Tree_last_node(T)
  IN IF n = Sentinel THEN [T |-> T, ret |-> RetRaise("IndexError")]
     ELSE [T |-> [TreeNode_delete_node(T, n) EXCEPT !.len = @ - 1],
           ret |-> RetPair(T.nodes[n].key, T.nodes[n].value)]

\* lower_bound that reports the sentinel as if it were an entry
Tree_lower_bound_no_sentinel_test(T, bound) ==
  IF T.root = NIL THEN RetVal(NoVal)
  ELSE Bind(TreeNode_lower_bound(T, T.root, bound), LAMBDA node :
         RetPair(T.nodes[node].key, T.nodes[node].value))

\* Tree.lower_bound: the (key, value) pair found, or None
Tree_lower_bound(T, bound) ==
  IF T.root = NIL THEN RetVal(NoVal)
  ELSE Bind(TreeNode_lower_bound(T, T.root, bound), LAMBDA node :
         IF node = Sentinel THEN RetVal(NoVal)
         ELSE RetPair(T.nodes[node].key, T.nodes[node].value))

\* Tree.upper_bound: the (key, value) pair found, or None
Tree_upper_bound(T, bound) ==
  IF T.root = NIL THEN RetVal(NoVal)
  ELSE Bind(TreeNode_upper_bound(T, T.root, bound), LAMBDA node :
         IF node = Sentinel THEN RetVal(NoVal)
         ELSE RetPair(T.nodes[node].key, T.nodes[node].value))

\* TreeIter.__next__ until StopIteration: the nodes from cur to end
RECURSIVE TreeIter_next(_, _, _, _)
TreeIter_next(T, cur, end, rev) ==
  <<cur>> \o (IF cur # end
              THEN TreeIter_next(T, IF rev THEN T.nodes[cur].prev
                                    ELSE T.nodes[cur].next, end, rev)
              ELSE <<>>)

\* TreeIter.__init__ and the iteration: the sequence of nodes it yields
TreeIter(T, lower, upper, rev) ==
  IF T.nodes[lower].prev # upper
  THEN IF ~rev THEN TreeIter_next(T, lower, upper, FALSE)
       ELSE TreeIter_next(T, upper, lower, TRUE)
  ELSE <<>>

\* Tree._do_iter: bounds are keys or NIL (None)
Tree_do_iter(T, left_bound, right_bound, reverse) ==
  LET swap == left_bound # NIL /\ right_bound # NIL /\ left_bound > right_bound
      lo == IF swap THEN right_bound ELSE left_bound
      hi == IF swap THEN left_bound ELSE right_bound
      lb == IF lo # NIL /\ T.root # NIL THEN TreeNode_lower_bound(T, T.root, lo)
            ELSE T.nodes[Sentinel].next
      rb == IF hi # NIL /\ T.root # NIL THEN TreeNode_upper_bound(T, T.root, hi)
            ELSE T.nodes[Sentinel].prev
  IN TreeIter(T, lb, rb, reverse)

\* Tree.items: the (key, value) pairs in iteration order
Tree_items(T, left_bound, right_bound, reverse) ==
  LET ns == Tree_do_iter(T, left_bound, right_bound, reverse)
  IN [i \in 1..Len(ns) |-> <<T.nodes[ns[i]].key, T.nodes[ns[i]].value>>]

\* ------------------------------------------- the map state machine (tests)

\* the reference dictionary: model = {}
RefEmpty == [k \in {} |-> NoVal]
\* model.get(k)
RefGet(d, k) == IF k \in DOMAIN d THEN d[k] ELSE NoVal
\* model[k] = v
RefSet(d, k, v) == [x \in DOMAIN d \cup {k} |-> IF x = k THEN v ELSE d[x]]
\* del model[k]
RefDel(d, k) == [x \in DOMAIN d \ {k} |-> d[x]]
\* sorted(model.keys())[0] and [-1]
RefMin(d) == CHOOSE k \in DOMAIN d : \A x \in DOMAIN d : k <= x
RefMax(d) == CHOOSE k \in DOMAIN d : \A x \in DOMAIN d : k >= x

\* sorted(model.items())
RECURSIVE RefSorted(_)
RefSorted(d) ==
  IF DOMAIN d = {} THEN <<>>
  ELSE <<<<RefMin(d), d[RefMin(d)]>>>> \o RefSorted(RefDel(d, RefMin(d)))

\* Heap addresses are not observable between operations (no rule keeps a node
\* handle), so after each rule the nodes are renamed 1..len in key order.
Rename(T, x) ==
  IF x = NIL \/ x = Sentinel THEN x
  ELSE IF x \notin DOMAIN T.nodes THEN 0 - 2
  ELSE Cardinality({m \in DOMAIN T.nodes \ {Sentinel} :
                      \/ T.nodes[m].key < T.nodes[x].key
                      \/ (T.nodes[m].key = T.nodes[x].key /\ m <= x)})

Canon(T) ==
  LET live == DOMAIN T.nodes \ {Sentinel}
      old(i) == IF i = Sentinel THEN Sentinel
                ELSE CHOOSE m \in live : Rename(T, m) = i
      mv(nd) == [nd EXCEPT !.parent = Rename(T, @), !.left = Rename(T, @),
                           !.right = Rename(T, @), !.prev = Rename(T, @),
                           !.next = Rename(T, @)]
  IN [T EXCEPT !.root = Rename(T, @),
               !.nodes = [i \in 0..Cardinality(live) |-> mv(T.nodes[old(i)])]]

TreeInit ==
  /\ tree \in {Tree_init("AVLNode"), Tree_init("RBNode")}
  /\ ref = RefEmpty
  /\ ret = RetVal(NoVal)
  /\ refRet = RetVal(NoVal)

\* rule insert_method: tree.insert(k, v) against model.get(k); model[k] = v
insert_method(k, v) ==
  /\ Bind(Tree_insert(tree, k, v), LAMBDA R :
       /\ tree' = Canon(R.T)
       /\ ret' = R.ret
       /\ refRet' = RetVal(RefGet(ref, k))
       /\ ref' = RefSet(ref, k, v))
  /\ UNCHANGED sysVars

\* rule setitem: tree[k] = v; model[k] = v
setitem(k, v) ==
  /\ Bind(Tree_setitem(tree, k, v), LAMBDA R :
       /\ tree' = Canon(R.T)
       /\ ret' = R.ret
       /\ refRet' = RetVal(NoVal)
       /\ ref' = RefSet(ref, k, v))
  /\ UNCHANGED sysVars

\* rule delitem: del tree[k]; del model[k] (KeyError when absent)
delitem(k) ==
  /\ Bind(Tree_delitem(tree, k), LAMBDA R :
       /\ tree' = Canon(R.T)
       /\ ret' = R.ret
       /\ refRet' = IF k \in DOMAIN ref THEN RetVal(NoVal) ELSE RetRaise("KeyError")
       /\ ref' = RefDel(ref, k))
  /\ UNCHANGED sysVars

\* rule pop: tree.pop(k) against model.pop(k)
pop(k) ==
  /\ Bind(Tree_pop(tree, k), LAMBDA R :
       /\ tree' = Canon(R.T)
       /\ ret' = R.ret
       /\ refRet' = IF k \in DOMAIN ref THEN RetVal(ref[k]) ELSE RetRaise("KeyError")
       /\ ref' = RefDel(ref, k))
  /\ UNCHANGED sysVars

\* rule pop_min
pop_min ==
  /\ Bind(Tree_pop_min(tree), LAMBDA R :
       /\ tree' = Canon(R.T)
       /\ ret' = R.ret
       /\ refRet' = IF DOMAIN ref = {} THEN RetRaise("IndexError")
                    ELSE RetPair(RefMin(ref), ref[RefMin(ref)])
       /\ ref' = IF DOMAIN ref = {} THEN ref ELSE RefDel(ref, RefMin(ref)))
  /\ UNCHANGED sysVars

\* rule pop_max
pop_max ==
  /\ Bind(Tree_pop_max(tree), LAMBDA R :
       /\ tree' = Canon(R.T)
       /\ ret' = R.ret
       /\ refRet' = IF DOMAIN ref = {} THEN RetRaise("IndexError")
                    ELSE RetPair(RefMax(ref), ref[RefMax(ref)])
       /\ ref' = IF DOMAIN ref = {} THEN ref ELSE RefDel(ref, RefMax(ref)))
  /\ UNCHANGED sysVars

TreeNext ==
  \/ \E k \in Keys, v \in Vals : insert_method(k, v)
  \/ \E k \in Keys, v \in Vals : setitem(k, v)
  \/ \E k \in Keys : delitem(k)
  \/ \E k \in Keys : pop(k)
  \/ pop_min
  \/ pop_max

\* ------------------------------------------- properties of the ordered map

\* the nodes of the subtree rooted at n
RECURSIVE Subtree(_, _)
Subtree(T, n) ==
  IF n = NIL THEN {}
  ELSE {n} \cup Subtree(T, T.nodes[n].left) \cup Subtree(T, T.nodes[n].right)

\* the height of the subtree rooted at n (verify_avl_integrity)
RECURSIVE Height(_, _)
Height(T, n) ==
  IF n = NIL THEN 0
  ELSE LET l == Height(T, T.nodes[n].left)
           r == Height(T, T.nodes[n].right)
       IN 1 + (IF l > r THEN l ELSE r)

\* the black height of the subtree rooted at n, a missing child counting 1
\* (verify_rb_integrity); NIL when two paths disagree
RECURSIVE BlackHeight(_, _)
BlackHeight(T, n) ==
  IF n = NIL THEN 1
  ELSE LET l == BlackHeight(T, T.nodes[n].left)
           r == BlackHeight(T, T.nodes[n].right)
       IN IF l = NIL \/ r = NIL \/ l # r THEN NIL
          ELSE IF T.nodes[n].red THEN l ELSE l + 1

\* the nodes met following _next from n until the sentinel, at most fuel of them
RECURSIVE NextChain(_, _, _)
NextChain(T, n, fuel) ==
  IF n = Sentinel \/ fuel = 0 \/ n \notin DOMAIN T.nodes THEN <<>>
  ELSE <<n>> \o NextChain(T, T.nodes[n].next, fuel - 1)

ChildLinksOK(T, n) ==
  /\ T.nodes[n].left # NIL => T.nodes[T.nodes[n].left].parent = n
  /\ T.nodes[n].right # NIL => T.nodes[T.nodes[n].right].parent = n

\* C4: for AVLTree and RBTree, after every sequence of insert, setitem,
\* delitem, pop, pop_min and pop_max run against a reference dictionary, len()
\* is the reference's size, the operation returned (or raised) what the
\* reference did, and items() yields the reference's pairs in ascending key
\* order.
C4_MapRefinesDict ==
  /\ tree.len = Cardinality(DOMAIN ref)
  /\ ret = refRet
  /\ Tree_items(tree, NIL, NIL, FALSE) = RefSorted(ref)

\* C4 witness: an insert on an existing key returned the previous value of a
\* map that has been filled and is now deep
C4_Witness ==
  /\ tree.len = NKeys
  /\ ret.kind = "value" /\ ret.v # NoVal
  /\ \E k \in DOMAIN ref : ref[k] # ret.v

\* C5: after every insert or delete on an AVLTree the heights of the two
\* subtrees of every node differ by at most 1 and every child's parent
\* pointer refers to its actual parent.
C5_AVLBalanced ==
  tree.cls = "AVLNode" =>
    \A n \in Subtree(tree, tree.root) :
      /\ Height(tree, tree.nodes[n].left) - Height(tree, tree.nodes[n].right)
           \in {0 - 1, 0, 1}
      /\ ChildLinksOK(tree, n)

\* C5 witness: an AVL tree of height 3 right after a pop_min or pop_max
C5_Witness ==
  /\ tree.cls = "AVLNode"
  /\ ret.kind = "pair"
  /\ tree.len = NKeys - 1
  /\ Height(tree, tree.root) = 3

\* C6: after every insert or delete on an RBTree the root is black, no red
\* node has a red child and every path from the root to a missing child
\* crosses the same number of black nodes.
C6_RedBlack ==
  tree.cls = "RBNode" =>
    /\ tree.root # NIL => ~tree.nodes[tree.root].red
    /\ \A n \in Subtree(tree, tree.root) :
         tree.nodes[n].red =>
           /\ tree.nodes[n].left # NIL => ~tree.nodes[tree.nodes[n].left].red
           /\ tree.nodes[n].right # NIL => ~tree.nodes[tree.nodes[n].right].red
    /\ BlackHeight(tree, tree.root) # NIL

\* C6 witness: a red-black tree holding red and black nodes below the root
\* right after a pop_min or pop_max
C6_Witness ==
  /\ tree.cls = "RBNode"
  /\ ret.kind = "pair"
  /\ tree.len = NKeys - 1
  /\ \E n \in Subtree(tree, tree.root) : tree.nodes[n].red
  /\ \E n \in Subtree(tree, tree.root) : n # tree.root /\ ~tree.nodes[n].red

\* C7: following _next from the sentinel visits every live node exactly
\* once in strictly ascending key order and returns to the sentinel; _prev is
\* the inverse of _next for the sentinel and every live node; in the empty
\* map the sentinel points to itself both ways.
C7_Threading ==
  LET ch == NextChain(tree, tree.nodes[Sentinel].next, Cardinality(DOMAIN tree.nodes))
      live == Subtree(tree, tree.root)
  IN /\ {ch[i] : i \in 1..Len(ch)} = live
     /\ Len(ch) = Cardinality(live)
     /\ \A i \in 1..(Len(ch) - 1) : tree.nodes[ch[i]].key < tree.nodes[ch[i + 1]].key
     /\ \A x \in live \cup {Sentinel} :
          /\ tree.nodes[x].next \in DOMAIN tree.nodes
          /\ tree.nodes[tree.nodes[x].next].prev = x
     /\ tree.root = NIL =>
          tree.nodes[Sentinel].prev = Sentinel /\ tree.nodes[Sentinel].next = Sentinel

\* C7 witness: a threaded chain of several nodes right after a deletion that
\* the reference answered with a value
C7_Witness ==
  /\ ret.kind = "value" /\ ret.v # NoVal
  /\ tree.len = NKeys - 1
  /\ Len(NextChain(tree, tree.nodes[Sentinel].next, NKeys)) = NKeys - 1

\* =================================================================== System

\* ------------------------------------------------------------------ bounds
\* at most MaxJobs jobs are ever enqueued
MaxJobs == 3
\* time limits of enqueued jobs are 1..MaxTL
MaxTL == 2
\* actual runtimes of enqueued jobs are 1..MaxRT (above the limit included)
MaxRT == 2
\* the driver's hybrid policy is hybrid_backfill(HybridN)
HybridN == 1

\* Job.NEW .. Job.FINISHED
Job_NEW == 0
Job_PENDING == 1
Job_STARTED == 2
Job_RESERVED == 3
Job_FINISHED == 4

\* System(resources): the machine of the model, two resource classes
TotalResources == <<2, 1>>
\* demands of the jobs offered to enqueue_job; the last exceeds the machine
Demands == {<<1, 0>>, <<1, 1>>, <<3, 0>>}

\* no exception has been raised
NoErr == ""

\* --------------------------------------------------------------- Resources

\* Resources.all_geq
all_geq(x, y) == \A i \in DOMAIN x : x[i] >= y[i]
\* Resources.valid
valid(x) == \A i \in DOMAIN x : x[i] >= 0
\* Resources.__iadd__ / __add__
rsc_add(x, y) == [i \in DOMAIN x |-> x[i] + y[i]]
\* Resources.__isub__ / __sub__
rsc_sub(x, y) == [i \in DOMAIN x |-> x[i] - y[i]]

\* ------------------------------------------------- the Timeline's tree map
\* The RBTree of the Timeline is represented by its contents; the operators
\* below are the tree's, computed on the key set.

SetMax(s) == CHOOSE k \in s : \A x \in s : k >= x
SetMin(s) == CHOOSE k \in s : \A x \in s : k <= x

\* the elements of a set of integers in ascending order
RECURSIVE SortedSeq(_)
SortedSeq(s) ==
  IF s = {} THEN <<>> ELSE <<SetMin(s)>> \o SortedSeq(s \ {SetMin(s)})

\* Tree.upper_bound(bound): the largest key strictly below bound, else None
Map_upper_bound(M, bound) ==
  LET s == {k \in DOMAIN M : k < bound}
  IN IF s = {} THEN NIL ELSE SetMax(s)

\* Tree.lower_bound(bound): the smallest key >= bound, else None
Map_lower_bound(M, bound) ==
  LET s == {k \in DOMAIN M : k >= bound}
  IN IF s = {} THEN NIL ELSE SetMin(s)

\* Tree.keys(left, right) with has_left / has_right telling which bounds are
\* given: the keys k with left <= k < right, ascending; the bounds are
\* swapped when left > right
Map_keys(M, has_left, left, has_right, right) ==
  LET swap == has_left /\ has_right /\ left > right
      lo == IF swap THEN right ELSE left
      hi == IF swap THEN left ELSE right
  IN SortedSeq({k \in DOMAIN M : (has_left => lo <= k) /\ (has_right => k < hi)})

\* ---------------------------------------------------------------- Timeline
\* The operators take and return the whole System record S; S.err # NoErr
\* after an exception, and every later step leaves S alone.

Fail(S, msg) == IF S.err # NoErr THEN S ELSE [S EXCEPT !.err = msg]

\* TimelineData.__init__
TimelineData(resources) ==
  [start |-> {}, end |-> {}, expired |-> {}, resources |-> resources]

\* _get_data that gives every new key the total resources
Timeline_get_data_total(S, t) ==
  IF t \in DOMAIN S.timeline THEN S
  ELSE [S EXCEPT !.timeline = @ @@ (t :> TimelineData(S.total_resources))]

\* Timeline._get_data: a new key clones the resources of its predecessor
Timeline_get_data(S, t) ==
  IF t \in DOMAIN S.timeline THEN S
  ELSE LET prev == Map_upper_bound(S.timeline, t)
           prev_rsc == IF prev # NIL THEN S.timeline[prev].resources
                       ELSE S.total_resources
       IN [S EXCEPT !.timeline = @ @@ (t :> TimelineData(prev_rsc))]

\* Timeline._insert_start_event
Timeline_insert_start_event(S, t, j) ==
  [Timeline_get_data(S, t) EXCEPT !.timeline[t].start = @ \cup {j}]

\* Timeline._insert_expire_event
Timeline_insert_expire_event(S, t, j) ==
  [Timeline_get_data(S, t) EXCEPT !.timeline[t].expired = @ \cup {j}]

\* Timeline._insert_end_event
Timeline_insert_end_event(S, t, j) ==
  [Timeline_get_data(S, t) EXCEPT !.timeline[t].end = @ \cup {j}]

\* _cleanup_node that keeps the keys whose sets have become empty
Timeline_cleanup_node_keep(S, k) == S

\* Timeline._cleanup_node
Timeline_cleanup_node(S, k) ==
  LET data == S.timeline[k]
  IN IF data.end = {} /\ data.expired = {} /\ data.start = {}
     THEN [S EXCEPT !.timeline = [x \in DOMAIN @ \ {k} |-> @[x]]]
     ELSE S

\* Timeline._remove_start_event
Timeline_remove_start_event(S, t, j) ==
  Bind(Timeline_get_data(S, t), LAMBDA S1 :
    IF j \notin S1.timeline[t].start THEN Fail(S1, "KeyError")
    ELSE Timeline_cleanup_node([S1 EXCEPT !.timeline[t].start = @ \ {j}], t))

\* Timeline._remove_expire_event
Timeline_remove_expire_event(S, t, j) ==
  Bind(Timeline_get_data(S, t), LAMBDA S1 :
    IF j \notin S1.timeline[t].expired THEN Fail(S1, "KeyError")
    ELSE Timeline_cleanup_node([S1 EXCEPT !.timeline[t].expired = @ \ {j}], t))

\* Timeline._remove_end_event
Timeline_remove_end_event(S, t, j) ==
  Bind(Timeline_get_data(S, t), LAMBDA S1 :
    IF j \notin S1.timeline[t].end THEN Fail(S1, "KeyError")
    ELSE Timeline_cleanup_node([S1 EXCEPT !.timeline[t].end = @ \ {j}], t))

\* the debit of add_job_reservation that leaves out the key start_time
Timeline_debit_after_start(S, lo, hi, rsc) ==
  LET ks == Map_keys(S.timeline, TRUE, lo + 1, TRUE, hi)
  IN [S EXCEPT !.timeline =
        [k \in DOMAIN @ |->
           IF \E i \in 1..Len(ks) : ks[i] = k
           THEN [@[k] EXCEPT !.resources = rsc_sub(@, rsc)] ELSE @[k]]]

\* for tl_node in self._tree.values(lo, hi): tl_node.resources -= rsc
Timeline_debit(S, lo, hi, rsc) ==
  LET ks == Map_keys(S.timeline, TRUE, lo, TRUE, hi)
  IN [S EXCEPT !.timeline =
        [k \in DOMAIN @ |->
           IF \E i \in 1..Len(ks) : ks[i] = k
           THEN [@[k] EXCEPT !.resources = rsc_sub(@, rsc)] ELSE @[k]]]

\* the credit that also reaches the key hi
Timeline_credit_inclusive(S, lo, hi, rsc) ==
  LET ks == Map_keys(S.timeline, TRUE, lo, TRUE, hi + 1)
  IN [S EXCEPT !.timeline =
        [k \in DOMAIN @ |->
           IF \E i \in 1..Len(ks) : ks[i] = k
           THEN [@[k] EXCEPT !.resources = rsc_add(@, rsc)] ELSE @[k]]]

\* for tl_node in self._tree.values(lo, hi): tl_node.resources += rsc
Timeline_credit(S, lo, hi, rsc) ==
  LET ks == Map_keys(S.timeline, TRUE, lo, TRUE, hi)
  IN [S EXCEPT !.timeline =
        [k \in DOMAIN @ |->
           IF \E i \in 1..Len(ks) : ks[i] = k
           THEN [@[k] EXCEPT !.resources = rsc_add(@, rsc)] ELSE @[k]]]

\* Timeline.add_job_reservation
Timeline_add_job_reservation(S, j) ==
  LET job == S.jobs[j]
      S1 == Timeline_insert_start_event(S, job.start_time, j)
      S2 == Timeline_insert_expire_event(S1, job.deadline, j)
  IN Timeline_debit(S2, job.start_time, job.deadline, job.resources)

\* Timeline.remove_job_reservation
Timeline_remove_job_reservation(S, j) ==
  LET job == S.jobs[j]
  IN Bind(Timeline_remove_start_event(S, job.start_time, j), LAMBDA S1 :
       IF S1.err # NoErr THEN S1
       ELSE Bind(Timeline_remove_expire_event(S1, job.deadline, j), LAMBDA S2 :
              IF S2.err # NoErr THEN S2
              ELSE Timeline_credit(S2, job.start_time, job.deadline,
                                   job.resources)))

\* Timeline.start_job_reservation
Timeline_start_job_reservation(S, j) ==
  Timeline_insert_end_event(S, S.jobs[j].end_time, j)

\* end_job_reservation that leaves the end entry at the old end_time
Timeline_end_job_reservation_keep_end(S, j, new_end_time) ==
  LET prev_end_time == S.jobs[j].end_time
      prev_deadline == S.jobs[j].deadline
  IN IF ~(new_end_time <= prev_deadline) THEN Fail(S, "AssertionError")
     ELSE IF ~(new_end_time <= prev_end_time) THEN Fail(S, "AssertionError")
     ELSE Bind(IF new_end_time < prev_end_time
               THEN Timeline_insert_end_event(S, new_end_time, j)
               ELSE S, LAMBDA S1 :
            IF S1.err # NoErr THEN S1
            ELSE Timeline_remove_expire_event(
                   IF new_end_time < prev_deadline
                   THEN Timeline_credit(S1, new_end_time, prev_deadline,
                                        S.jobs[j].resources)
                   ELSE S1, prev_deadline, j))

\* Timeline.end_job_reservation
Timeline_end_job_reservation(S, j, new_end_time) ==
  LET prev_end_time == S.jobs[j].end_time
      prev_deadline == S.jobs[j].deadline
  IN IF ~(new_end_time <= prev_deadline) THEN Fail(S, "AssertionError")
     ELSE IF ~(new_end_time <= prev_end_time) THEN Fail(S, "AssertionError")
     ELSE Bind(IF new_end_time < prev_end_time
               THEN Timeline_remove_end_event(
                      Timeline_insert_end_event(S, new_end_time, j),
                      prev_end_time, j)
               ELSE S, LAMBDA S1 :
            IF S1.err # NoErr THEN S1
            ELSE Timeline_remove_expire_event(
                   IF new_end_time < prev_deadline
                   THEN Timeline_credit(S1, new_end_time, prev_deadline,
                                        S.jobs[j].resources)
                   ELSE S1, prev_deadline, j))

\* the result of find_schedulable_time: a time, None or the RuntimeError
Found(t) == [kind |-> "time", t |-> t]
FoundNone == [kind |-> "None", t |-> 0]
FoundRaise == [kind |-> "RuntimeError", t |-> 0]

\* the inner loop of find_schedulable_time: no key in [iter_t, cur_t +
\* timelimit) lacks the job's resources
Timeline_fits(M, job, iter_t, cur_t) ==
  LET ks == Map_keys(M, TRUE, iter_t, TRUE, cur_t + job.timelimit)
  IN \A i \in 1..Len(ks) : all_geq(M[ks[i]].resources, job.resources)

\* the outer loop of find_schedulable_time over the keys ks
RECURSIVE Timeline_find_loop(_, _, _, _, _)
Timeline_find_loop(M, job, start_time, reserve, ks) ==
  IF ks = <<>> THEN FoundRaise
  ELSE LET iter_t == Head(ks)
           cur_t == IF start_time > iter_t THEN start_time ELSE iter_t
       IN IF ~reserve /\ iter_t > start_time THEN FoundNone
          ELSE IF Timeline_fits(M, job, iter_t, cur_t) THEN Found(cur_t)
          ELSE Timeline_find_loop(M, job, start_time, reserve, Tail(ks))

\* Timeline.find_schedulable_time
Timeline_find_schedulable_time(M, job, start_time, reserve) ==
  IF Cardinality(DOMAIN M) = 0 THEN Found(start_time)
  ELSE LET iter_start_key == Map_upper_bound(M, start_time + 1)
       IN Timeline_find_loop(M, job, start_time, reserve,
            Map_keys(M, iter_start_key # NIL, iter_start_key, FALSE, 0))

\* Timeline.can_schedule (through iter_resources)
Timeline_can_schedule(M, job, start_time) ==
  IF Cardinality(DOMAIN M) = 0 THEN TRUE
  ELSE LET iter_start_key == Map_upper_bound(M, start_time + 1)
           ks == Map_keys(M, iter_start_key # NIL, iter_start_key,
                          TRUE, start_time + job.timelimit)
       IN \A i \in 1..Len(ks) : all_geq(M[ks[i]].resources, job.resources)

\* next_event that never moves the clock: lower_bound(after_time)
Timeline_next_event_same(M, after_time) == Map_lower_bound(M, after_time)

\* next_event that skips the next instant: lower_bound(after_time + 2)
Timeline_next_event_skip(M, after_time) == Map_lower_bound(M, after_time + 2)

\* Timeline.next_event: the smallest key > after_time, else None
Timeline_next_event(M, after_time) == Map_lower_bound(M, after_time + 1)

\* --------------------------------------------------------------------- Job

\* Job.__init__ followed by Job.enqueued(job_id); runtime is what
\* compute_actual_runtime will return
Job_enqueued(timelimit, resources, runtime) ==
  [timelimit |-> timelimit, resources |-> resources, runtime |-> runtime,
   state |-> Job_PENDING, start_time |-> NIL, end_time |-> NIL, deadline |-> NIL]

\* Job.reserve
Job_reserve(S, j, start_time) ==
  [S EXCEPT !.jobs[j].start_time = start_time,
            !.jobs[j].deadline = start_time + S.jobs[j].timelimit,
            !.jobs[j].state = Job_RESERVED]

\* Job.unreserve
Job_unreserve(S, j) ==
  [S EXCEPT !.jobs[j].start_time = NIL,
            !.jobs[j].deadline = NIL,
            !.jobs[j].state = Job_PENDING]

\* Job.start
Job_start(S, j) ==
  [S EXCEPT !.jobs[j].start_time = S.cur_time,
            !.jobs[j].deadline = S.cur_time + S.jobs[j].timelimit,
            !.jobs[j].end_time = S.cur_time + S.jobs[j].runtime,
            !.jobs[j].state = Job_STARTED]

\* Job.end that puts the job back into the PENDING state
Job_end_pending(S, j, end_time) ==
  [S EXCEPT !.jobs[j].end_time = end_time,
            !.jobs[j].state = Job_PENDING]

\* Job.end
Job_end(S, j, end_time) ==
  [S EXCEPT !.jobs[j].end_time = end_time,
            !.jobs[j].state = Job_FINISHED]

\* ------------------------------------------------------------------ System

\* list.remove(x): the sequence without the first occurrence of x
SeqRemove(q, x) ==
  LET i == CHOOSE i \in 1..Len(q) : q[i] = x /\ \A k \in 1..(i - 1) : q[k] # x
  IN SubSeq(q, 1, i - 1) \o SubSeq(q, i + 1, Len(q))

SeqHas(q, x) == \E i \in 1..Len(q) : q[i] = x

\* System.enqueue_job of an acceptable job
System_enqueue_job(S, timelimit, resources, runtime) ==
  LET id == S.jobs_enqueued
  IN [S EXCEPT !.jobs = @ @@ (id :> Job_enqueued(timelimit, resources, runtime)),
               !.jobs_enqueued = @ + 1,
               !.pending_jobs = Append(@, id),
               !.should_run_sched_loop = TRUE]

\* System._start_job
System_start_job(S, j) ==
  LET job == S.jobs[j]
      was_reserved == job.state = Job_RESERVED
      S1 == IF was_reserved THEN [S EXCEPT !.reserved_jobs = SeqRemove(@, j)] ELSE S
      S2 == Job_start(S1, j)
      S3 == IF ~was_reserved THEN Timeline_add_job_reservation(S2, j) ELSE S2
      S4 == Timeline_start_job_reservation(S3, j)
  IN IF S.err # NoErr THEN S
     ELSE IF job.state \notin {Job_RESERVED, Job_PENDING} THEN Fail(S, "AssertionError")
     ELSE IF was_reserved /\ job.start_time # S.cur_time THEN Fail(S, "AssertionError")
     ELSE IF was_reserved /\ ~SeqHas(S.reserved_jobs, j) THEN Fail(S, "ValueError")
     ELSE [S4 EXCEPT !.should_run_sched_loop = TRUE]

\* _end_job that adds the number of jobs finished before to the end time
System_end_job_counting(S, j) ==
  IF S.err # NoErr THEN S
  ELSE IF ~(S.cur_time >= S.jobs[j].start_time) THEN Fail(S, "AssertionError")
  ELSE IF S.jobs[j].state # Job_STARTED THEN Fail(S, "AssertionError")
  ELSE Bind(Timeline_end_job_reservation(S, j, S.cur_time), LAMBDA S1 :
         IF S1.err # NoErr THEN S1
         ELSE [Job_end(S1, j, S.cur_time + Len(S.finished_jobs))
                 EXCEPT !.finished_jobs = Append(@, j),
                        !.should_run_sched_loop = TRUE])

\* System._end_job
System_end_job(S, j) ==
  IF S.err # NoErr THEN S
  ELSE IF ~(S.cur_time >= S.jobs[j].start_time) THEN Fail(S, "AssertionError")
  ELSE IF S.jobs[j].state # Job_STARTED THEN Fail(S, "AssertionError")
  ELSE Bind(Timeline_end_job_reservation(S, j, S.cur_time), LAMBDA S1 :
         IF S1.err # NoErr THEN S1
         ELSE [Job_end(S1, j, S.cur_time)
                 EXCEPT !.finished_jobs = Append(@, j),
                        !.should_run_sched_loop = TRUE])

\* System._reserve_job
System_reserve_job(S, j, t) ==
  LET S1 == Job_reserve(S, j, t)
      S2 == Timeline_add_job_reservation(S1, j)
  IN IF S.err # NoErr THEN S
     ELSE IF ~(t > S.cur_time) THEN Fail(S, "AssertionError")
     ELSE IF S.jobs[j].state # Job_PENDING THEN Fail(S, "AssertionError")
     ELSE [S2 EXCEPT !.reserved_jobs = Append(@, j)]

\* reserved_jobs.sort(key=job_id) without reverse=True
RECURSIVE SortDesc_ascending(_)
SortDesc_ascending(s) ==
  IF s = {} THEN <<>> ELSE <<SetMin(s)>> \o SortDesc_ascending(s \ {SetMin(s)})

\* reserved_jobs.sort(key=job_id, reverse=True)
RECURSIVE SortDesc(_)
SortDesc(s) ==
  IF s = {} THEN <<>> ELSE <<SetMax(s)>> \o SortDesc(s \ {SetMax(s)})

\* the loop of unreserve_all_jobs that puts the jobs at the back of
\* pending_jobs (append in place of appendleft)
RECURSIVE System_unreserve_loop_append(_, _)
System_unreserve_loop_append(S, js) ==
  IF S.err # NoErr \/ js = <<>> THEN S
  ELSE LET j == Head(js)
       IN IF S.jobs[j].state # Job_RESERVED THEN Fail(S, "AssertionError")
          ELSE Bind(Timeline_remove_job_reservation(S, j), LAMBDA S1 :
                 IF S1.err # NoErr THEN S1
                 ELSE System_unreserve_loop_append(
                        [Job_unreserve(S1, j) EXCEPT !.pending_jobs = Append(@, j)],
                        Tail(js)))

\* the loop of unreserve_all_jobs over the sorted list js
RECURSIVE System_unreserve_loop(_, _)
System_unreserve_loop(S, js) ==
  IF S.err # NoErr \/ js = <<>> THEN S
  ELSE LET j == Head(js)
       IN IF S.jobs[j].state # Job_RESERVED THEN Fail(S, "AssertionError")
          ELSE Bind(Timeline_remove_job_reservation(S, j), LAMBDA S1 :
                 IF S1.err # NoErr THEN S1
                 ELSE System_unreserve_loop(
                        [Job_unreserve(S1, j) EXCEPT !.pending_jobs = <<j>> \o @],
                        Tail(js)))

\* System.unreserve_all_jobs
System_unreserve_all_jobs(S) ==
  Bind(SortDesc({S.reserved_jobs[i] : i \in 1..Len(S.reserved_jobs)}),
       LAMBDA js :
         Bind(System_unreserve_loop([S EXCEPT !.reserved_jobs = js], js),
              LAMBDA S1 : IF S1.err # NoErr THEN S1
                          ELSE [S1 EXCEPT !.reserved_jobs = <<>>]))

\* start_or_reserve_job that compares schedule_tm >= cur_time first
System_start_or_reserve_job_geq(S, j, reserve) ==
  IF S.err # NoErr THEN [S |-> S, status |-> Job_PENDING]
  ELSE Bind(Timeline_find_schedulable_time(S.timeline, S.jobs[j], S.cur_time,
                                           reserve), LAMBDA schedule_tm :
         IF schedule_tm.kind = "RuntimeError"
         THEN [S |-> Fail(S, "RuntimeError"), status |-> Job_PENDING]
         ELSE IF schedule_tm.kind = "None" THEN [S |-> S, status |-> Job_PENDING]
         ELSE IF schedule_tm.t >= S.cur_time
         THEN [S |-> System_reserve_job(S, j, schedule_tm.t),
               status |-> Job_RESERVED]
         ELSE [S |-> Fail(S, "RuntimeError"), status |-> Job_PENDING])

\* System.start_or_reserve_job: [S, status]
System_start_or_reserve_job(S, j, reserve) ==
  IF S.err # NoErr THEN [S |-> S, status |-> Job_PENDING]
  ELSE Bind(Timeline_find_schedulable_time(S.timeline, S.jobs[j], S.cur_time,
                                           reserve), LAMBDA schedule_tm :
         IF schedule_tm.kind = "RuntimeError"
         THEN [S |-> Fail(S, "RuntimeError"), status |-> Job_PENDING]
         ELSE IF schedule_tm.kind = "None" THEN [S |-> S, status |-> Job_PENDING]
         ELSE IF schedule_tm.t > S.cur_time
         THEN [S |-> System_reserve_job(S, j, schedule_tm.t),
               status |-> Job_RESERVED]
         ELSE IF schedule_tm.t = S.cur_time
         THEN [S |-> System_start_job(S, j), status |-> Job_STARTED]
         ELSE [S |-> Fail(S, "RuntimeError"), status |-> Job_PENDING])

\* ---------------------------------------------------------------- policies

\* fcfs that lets the head of the queue take a reservation
RECURSIVE fcfs_reserving(_)
fcfs_reserving(S) ==
  IF S.err # NoErr \/ Len(S.pending_jobs) = 0 THEN S
  ELSE Bind(System_start_or_reserve_job(S, Head(S.pending_jobs), TRUE),
            LAMBDA R :
              IF R.S.err # NoErr \/ R.status # Job_STARTED THEN R.S
              ELSE fcfs_reserving([R.S EXCEPT !.pending_jobs = Tail(@)]))

\* policy.fcfs
RECURSIVE fcfs(_)
fcfs(S) ==
  IF S.err # NoErr \/ Len(S.pending_jobs) = 0 THEN S
  ELSE Bind(System_start_or_reserve_job(S, Head(S.pending_jobs), FALSE),
            LAMBDA R :
              IF R.S.err # NoErr \/ R.status # Job_STARTED THEN R.S
              ELSE fcfs([R.S EXCEPT !.pending_jobs = Tail(@)]))

\* the while loop that tests cur_reserved <= max_backfill
RECURSIVE backfill_loop_leq(_, _, _, _)
backfill_loop_leq(max_backfill, S, cur_reserved, new_pending) ==
  IF S.err # NoErr THEN S
  ELSE IF Len(S.pending_jobs) = 0 THEN [S EXCEPT !.pending_jobs = new_pending]
  ELSE LET j == Head(S.pending_jobs)
           can_reserve == max_backfill = NIL \/ cur_reserved <= max_backfill
       IN Bind(System_start_or_reserve_job(
                 [S EXCEPT !.pending_jobs = Tail(@)], j, can_reserve),
               LAMBDA R :
                 IF R.S.err # NoErr THEN R.S
                 ELSE IF can_reserve
                 THEN IF R.status = Job_PENDING THEN Fail(R.S, "AssertionError")
                      ELSE backfill_loop_leq(max_backfill, R.S,
                             IF R.status = Job_RESERVED THEN cur_reserved + 1
                             ELSE cur_reserved, new_pending)
                 ELSE IF R.status = Job_RESERVED THEN Fail(R.S, "AssertionError")
                      ELSE backfill_loop_leq(max_backfill, R.S, cur_reserved,
                             IF R.status = Job_PENDING THEN Append(new_pending, j)
                             ELSE new_pending))

\* the while loop of policy._backfill_sched; max_backfill NIL is None
RECURSIVE backfill_loop(_, _, _, _)
backfill_loop(max_backfill, S, cur_reserved, new_pending) ==
  IF S.err # NoErr THEN S
  ELSE IF Len(S.pending_jobs) = 0 THEN [S EXCEPT !.pending_jobs = new_pending]
  ELSE LET j == Head(S.pending_jobs)
           can_reserve == max_backfill = NIL \/ cur_reserved < max_backfill
       IN Bind(System_start_or_reserve_job(
                 [S EXCEPT !.pending_jobs = Tail(@)], j, can_reserve),
               LAMBDA R :
                 IF R.S.err # NoErr THEN R.S
                 ELSE IF can_reserve
                 THEN IF R.status = Job_PENDING THEN Fail(R.S, "AssertionError")
                      ELSE backfill_loop(max_backfill, R.S,
                             IF R.status = Job_RESERVED THEN cur_reserved + 1
                             ELSE cur_reserved, new_pending)
                 ELSE IF R.status = Job_RESERVED THEN Fail(R.S, "AssertionError")
                      ELSE backfill_loop(max_backfill, R.S, cur_reserved,
                             IF R.status = Job_PENDING THEN Append(new_pending, j)
                             ELSE new_pending))

\* policy._backfill_sched
backfill_sched(max_backfill, S) ==
  backfill_loop(max_backfill, System_unreserve_all_jobs(S), 0, <<>>)

\* the policies as callables: fcfs, and partial(_backfill_sched, n)
fcfs_policy == [fn |-> "fcfs", max_backfill |-> NIL]
easy_backfill == [fn |-> "_backfill_sched", max_backfill |-> 1]
conservative_backfill == [fn |-> "_backfill_sched", max_backfill |-> NIL]
hybrid_backfill(n) == [fn |-> "_backfill_sched", max_backfill |-> n]

\* the policies the driver chooses from
Policies ==
  {fcfs_policy, easy_backfill, conservative_backfill, hybrid_backfill(HybridN)}

\* sched_policy(self) for the policy p
apply_policy(p, S) ==
  IF p.fn = "fcfs" THEN fcfs(S) ELSE backfill_sched(p.max_backfill, S)

\* System.run_sched_loop
System_run_sched_loop(S, p) ==
  IF S.should_run_sched_loop
  THEN Bind(apply_policy(p, S), LAMBDA S1 :
         IF S1.err # NoErr THEN S1
         ELSE [S1 EXCEPT !.should_run_sched_loop = FALSE])
  ELSE S

\* the members of the set js in the order in which ord lists them
OrderBy(js, ord) == SelectSeq(ord, LAMBDA x : x \in js)

\* for j in list(...): self._start_job(j), with the assert of handle_events
RECURSIVE System_start_each(_, _)
System_start_each(S, js) ==
  IF S.err # NoErr \/ js = <<>> THEN S
  ELSE IF S.jobs[Head(js)].state # Job_RESERVED THEN Fail(S, "AssertionError")
  ELSE System_start_each(System_start_job(S, Head(js)), Tail(js))

\* for j in list(...): self._end_job(j)
RECURSIVE System_end_each(_, _)
System_end_each(S, js) ==
  IF S.err # NoErr \/ js = <<>> THEN S
  ELSE System_end_each(System_end_job(S, Head(js)), Tail(js))

\* the sets of the TimelineData that handle_events holds on to
NodeSet(S, t, f) == IF t \in DOMAIN S.timeline THEN S.timeline[t][f] ELSE {}

\* handle_events that asks for a scheduling pass even when no event is left
System_handle_events_flag_always(S, ord) ==
  Bind(Timeline_next_event(S.timeline, S.cur_time), LAMBDA t :
    IF t = NIL THEN [S |-> [S EXCEPT !.should_run_sched_loop = TRUE], ret |-> FALSE]
    ELSE
    Bind([S EXCEPT !.cur_time = t], LAMBDA S0 :
    Bind(System_start_each(S0, OrderBy(NodeSet(S0, t, "start"), ord)), LAMBDA S1 :
    Bind(System_end_each(S1, OrderBy(NodeSet(S1, t, "end"), ord)), LAMBDA S2 :
    Bind(System_end_each(S2, OrderBy(NodeSet(S2, t, "expired"), ord)), LAMBDA S3 :
      IF S3.err # NoErr THEN [S |-> S3, ret |-> FALSE]
      ELSE [S |-> [S3 EXCEPT !.should_run_sched_loop = TRUE], ret |-> TRUE])))))

\* handle_events that ends the expired jobs before the jobs marked end
System_handle_events_expired_first(S, ord) ==
  Bind(Timeline_next_event(S.timeline, S.cur_time), LAMBDA t :
    IF t = NIL THEN [S |-> S, ret |-> FALSE]
    ELSE
    Bind([S EXCEPT !.cur_time = t], LAMBDA S0 :
    Bind(System_start_each(S0, OrderBy(NodeSet(S0, t, "start"), ord)), LAMBDA S1 :
    Bind(System_end_each(S1, OrderBy(NodeSet(S1, t, "expired") \ NodeSet(S1, t, "end"),
                                     ord)), LAMBDA S2 :
    Bind(System_end_each(S2, OrderBy(NodeSet(S1, t, "end"), ord)), LAMBDA S3 :
      IF S3.err # NoErr THEN [S |-> S3, ret |-> FALSE]
      ELSE [S |-> [S3 EXCEPT !.should_run_sched_loop = TRUE], ret |-> TRUE])))))

\* System.handle_events: [S, ret]; ord is the order in which the sets of the
\* node happen to be iterated
System_handle_events(S, ord) ==
  Bind(Timeline_next_event(S.timeline, S.cur_time), LAMBDA t :
    IF t = NIL THEN [S |-> S, ret |-> FALSE]
    ELSE
    Bind([S EXCEPT !.cur_time = t], LAMBDA S0 :
    Bind(System_start_each(S0, OrderBy(NodeSet(S0, t, "start"), ord)), LAMBDA S1 :
    Bind(System_end_each(S1, OrderBy(NodeSet(S1, t, "end"), ord)), LAMBDA S2 :
    Bind(System_end_each(S2, OrderBy(NodeSet(S2, t, "expired"), ord)), LAMBDA S3 :
      IF S3.err # NoErr THEN [S |-> S3, ret |-> FALSE]
      ELSE [S |-> [S3 EXCEPT !.should_run_sched_loop = TRUE], ret |-> TRUE])))))

\* System.tick: [S, ret]; ret is FALSE for the None it returns when
\* handle_events found no event
System_tick(S, p, ord) ==
  Bind(System_run_sched_loop(S, p), LAMBDA S1 :
    IF S1.err # NoErr THEN [S |-> S1, ret |-> FALSE]
    ELSE Bind(System_handle_events(S1, ord), LAMBDA R :
           IF R.S.err # NoErr \/ ~R.ret THEN [S |-> R.S, ret |-> FALSE]
           ELSE [S |-> System_run_sched_loop(R.S, p), ret |-> TRUE]))

\* ------------------------------------------------------------- the program

\* job.timelimit of the jobs offered (Job.__init__ asserts timelimit > 0)
TimeLimits == 1..MaxTL
\* what compute_actual_runtime returns for the jobs offered
Runtimes == 0..MaxRT

\* the System object, from the variables
Sys ==
  [total_resources |-> TotalResources, cur_time |-> cur_time,
   jobs_enqueued |-> jobs_enqueued,
   should_run_sched_loop |-> should_run_sched_loop, jobs |-> jobs,
   pending_jobs |-> pending_jobs, finished_jobs |-> finished_jobs,
   reserved_jobs |-> reserved_jobs, timeline |-> timeline, err |-> err]

\* the variables after an operation left the System object as S
SetSys(S) ==
  /\ cur_time' = S.cur_time
  /\ jobs_enqueued' = S.jobs_enqueued
  /\ should_run_sched_loop' = S.should_run_sched_loop
  /\ jobs' = S.jobs
  /\ pending_jobs' = S.pending_jobs
  /\ finished_jobs' = S.finished_jobs
  /\ reserved_jobs' = S.reserved_jobs
  /\ timeline' = S.timeline
  /\ err' = S.err

\* the orders in which a set of jobs can be iterated
JobOrders ==
  {s \in [1..jobs_enqueued -> 0..(jobs_enqueued - 1)] :
     \A a, b \in 1..jobs_enqueued : a # b => s[a] # s[b]}

\* System.__init__, and the policy the driver will use
SysInit ==
  /\ cur_time = 0
  /\ jobs_enqueued = 0
  /\ should_run_sched_loop = FALSE
  /\ jobs = [j \in {} |-> j]
  /\ pending_jobs = <<>>
  /\ finished_jobs = <<>>
  /\ reserved_jobs = <<>>
  /\ timeline = [k \in {} |-> k]
  /\ err = NoErr
  /\ policy \in Policies
  /\ in_run = FALSE
  /\ pc = "idle"
  /\ last = "returned"

\* enqueue_job that sets the dirty bit before it checks the demand
enqueue_job_dirty(tlim, dem, rt) ==
  /\ ~in_run /\ err = NoErr /\ jobs_enqueued < MaxJobs
  /\ IF all_geq(TotalResources, dem)
     THEN SetSys(System_enqueue_job(Sys, tlim, dem, rt)) /\ last' = "returned"
     ELSE /\ SetSys([Sys EXCEPT !.should_run_sched_loop = TRUE])
          /\ last' = "ValueError"
  /\ UNCHANGED <<policy, in_run, pc, treeVars>>

\* system.enqueue_job(job) called by the driver; ValueError leaves the
\* System as it was
enqueue_job(tlim, dem, rt) ==
  /\ ~in_run /\ err = NoErr /\ jobs_enqueued < MaxJobs
  /\ IF all_geq(TotalResources, dem)
     THEN SetSys(System_enqueue_job(Sys, tlim, dem, rt)) /\ last' = "returned"
     ELSE SetSys(Sys) /\ last' = "ValueError"
  /\ UNCHANGED <<policy, in_run, pc, treeVars>>

\* policy(system) called by the driver
sched_policy ==
  /\ ~in_run /\ err = NoErr
  /\ SetSys(apply_policy(policy, Sys))
  /\ last' = "returned"
  /\ UNCHANGED <<policy, in_run, pc, treeVars>>

\* system.run_sched_loop(policy) called by the driver
run_sched_loop ==
  /\ ~in_run /\ err = NoErr
  /\ SetSys(System_run_sched_loop(Sys, policy))
  /\ last' = "returned"
  /\ UNCHANGED <<policy, in_run, pc, treeVars>>

\* system.handle_events() called by the driver
handle_events ==
  /\ ~in_run /\ err = NoErr
  /\ \E ord \in JobOrders :
       Bind(System_handle_events(Sys, ord),
            LAMBDA R : SetSys(R.S) /\ last' = "returned")
  /\ UNCHANGED <<policy, in_run, pc, treeVars>>

\* system.run(policy) is entered
run ==
  /\ ~in_run /\ err = NoErr
  /\ in_run' = TRUE
  /\ pc' = "sched"
  /\ last' = "returned"
  /\ SetSys(Sys)
  /\ UNCHANGED <<policy, treeVars>>

\* tick: self.run_sched_loop(sched_policy)
tick_sched ==
  /\ in_run /\ err = NoErr /\ pc = "sched"
  /\ SetSys(System_run_sched_loop(Sys, policy))
  /\ pc' = "events"
  /\ last' = "returned"
  /\ UNCHANGED <<policy, in_run, treeVars>>

\* tick: if self.handle_events(); a false result ends run
tick_events ==
  /\ in_run /\ err = NoErr /\ pc = "events"
  /\ \E ord \in JobOrders :
       Bind(System_handle_events(Sys, ord), LAMBDA R :
         /\ SetSys(R.S)
         /\ IF R.ret \/ R.S.err # NoErr
            THEN pc' = "resched" /\ in_run' = TRUE /\ last' = "returned"
            ELSE pc' = "idle" /\ in_run' = FALSE /\ last' = "run_returned")
  /\ UNCHANGED <<policy, treeVars>>

\* tick: self.run_sched_loop(sched_policy); return True
tick_resched ==
  /\ in_run /\ err = NoErr /\ pc = "resched"
  /\ SetSys(System_run_sched_loop(Sys, policy))
  /\ pc' = "sched"
  /\ last' = "returned"
  /\ UNCHANGED <<policy, in_run, treeVars>>

Next ==
  \/ \E tlim \in TimeLimits, dem \in Demands, rt \in Runtimes :
       enqueue_job(tlim, dem, rt)
  \/ sched_policy
  \/ run_sched_loop
  \/ handle_events
  \/ run
  \/ tick_sched
  \/ tick_events
  \/ tick_resched

\* the ordered map left alone
TreeIdle ==
  /\ tree = Tree_init("RBNode")
  /\ ref = RefEmpty
  /\ ret = RetVal(NoVal)
  /\ refRet = RetVal(NoVal)

Init == SysInit /\ TreeIdle

\* the simulator under its driver
Spec == Init /\ [][Next]_vars

\* the ordered-map state machine, the simulator left alone
TreeSpecInit == TreeInit /\ SysInit /\ policy = fcfs_policy

TreeSpec == TreeSpecInit /\ [][TreeNext]_vars

\* every key of a left subtree is below the key of its root, every key of
\* a right subtree above it
BSTOrdered(T) ==
  \A n \in Subtree(T, T.root) :
    /\ \A m \in Subtree(T, T.nodes[n].left) : T.nodes[m].key < T.nodes[n].key
    /\ \A m \in Subtree(T, T.nodes[n].right) : T.nodes[m].key > T.nodes[n].key

\* check_integrity of the state machine, for a map of plain TreeNodes: the
\* order of the tree, the threading, and the items against the reference
check_integrity ==
  /\ BSTOrdered(tree)
  /\ C7_Threading
  /\ tree.len = Cardinality(DOMAIN ref)
  /\ Tree_items(tree, NIL, NIL, FALSE) = RefSorted(ref)

\* TreeStateMachine.__init__: self.tree = Tree(), the node class defaulted
BaseTreeInit ==
  /\ tree = Tree_init("TreeNode")
  /\ ref = RefEmpty
  /\ ret = RetVal(NoVal)
  /\ refRet = RetVal(NoVal)
  /\ SysInit /\ policy = fcfs_policy

\* a rule runs when the invariant held after the rule before it: the state
\* machine gives up at the first failure
BaseTreeNext ==
  \/ check_integrity /\ \E k \in Keys, v \in Vals : insert_method(k, v)
  \/ check_integrity /\ \E k \in Keys, v \in Vals : setitem(k, v)
  \/ check_integrity /\ \E k \in Keys : delitem(k)
  \/ check_integrity /\ \E k \in Keys : pop(k)
  \/ check_integrity /\ pop_min
  \/ check_integrity /\ pop_max

\* the state machine of the tests on the base Tree
BaseTreeSpec == BaseTreeInit /\ [][BaseTreeNext]_vars

\* the driver of the simulation runs: jobs are enqueued and run(policy) is
\* called
RunNext ==
  \/ \E tlim \in TimeLimits, dem \in Demands, rt \in Runtimes :
       enqueue_job(tlim, dem, rt)
  \/ run
  \/ tick_sched
  \/ tick_events
  \/ tick_resched

\* some step of tick is taken: the position inside run moves on.  While run
\* executes without an exception exactly one of tick_sched, tick_events and
\* tick_resched is enabled, and each of them changes pc.
tick ==
  /\ in_run /\ err = NoErr
  /\ pc' \in {"sched", "events", "resched", "idle"}

\* run(policy) is a loop of a single thread: it keeps taking the steps of tick
LiveSpec == Init /\ [][RunNext]_vars /\ WF_pc(tick)

\* ------------------------------------------ the workload of scenario S2
\* system = System(np.array([5]))
S2_total_resources == <<5>>

\* Job(timelimit, demand), in the order in which the jobs are enqueued
S2_jobs ==
  << <<10, <<2>> >>, <<5, <<3>> >>, <<5, <<5>> >>,
     <<3, <<3>> >>, <<3, <<1>> >>, <<2, <<2>> >> >>

\* the System object of the scenario, from the variables
S2_Sys == [Sys EXCEPT !.total_resources = S2_total_resources]

\* what compute_actual_runtime returns: the time limit (the default) or,
\* overridden, one step less
S2_Runtimes(timelimit) == {timelimit, timelimit - 1}

\* the jobs in the sets of the node that handle_events will visit
S2_next_jobs ==
  Bind(Timeline_next_event(timeline, cur_time), LAMBDA t :
    IF t = NIL THEN {}
    ELSE timeline[t].start \cup timeline[t].end \cup timeline[t].expired)

\* the orders in which the jobs in js can be iterated
OrdersOf(js) ==
  {s \in [1..Cardinality(js) -> js] :
     \A a, b \in 1..Cardinality(js) : a # b => s[a] # s[b]}

\* system.enqueue_job(Job(timelimit, demand)) for the next job of the
\* workload
s2_enqueue_job ==
  /\ ~in_run /\ err = NoErr /\ last # "run_returned"
  /\ jobs_enqueued < Len(S2_jobs)
  /\ \E rt \in S2_Runtimes(S2_jobs[jobs_enqueued + 1][1]) :
       Bind(S2_jobs[jobs_enqueued + 1], LAMBDA job :
         IF all_geq(S2_total_resources, job[2])
         THEN SetSys(System_enqueue_job(S2_Sys, job[1], job[2], rt))
              /\ last' = "returned"
         ELSE SetSys(Sys) /\ last' = "ValueError")
  /\ UNCHANGED <<policy, in_run, pc, treeVars>>

\* system.run(policy) is entered, the whole workload being enqueued
s2_run ==
  /\ ~in_run /\ err = NoErr /\ last # "run_returned"
  /\ jobs_enqueued = Len(S2_jobs)
  /\ in_run' = TRUE
  /\ pc' = "sched"
  /\ last' = "returned"
  /\ SetSys(Sys)
  /\ UNCHANGED <<policy, treeVars>>

\* tick: self.run_sched_loop(sched_policy)
s2_tick_sched ==
  /\ in_run /\ err = NoErr /\ pc = "sched"
  /\ SetSys(System_run_sched_loop(S2_Sys, policy))
  /\ pc' = "events"
  /\ last' = "returned"
  /\ UNCHANGED <<policy, in_run, treeVars>>

\* tick: if self.handle_events(); a false result ends run
s2_tick_events ==
  /\ in_run /\ err = NoErr /\ pc = "events"
  /\ \E ord \in OrdersOf(S2_next_jobs) :
       Bind(System_handle_events(S2_Sys, ord), LAMBDA R :
         /\ SetSys(R.S)
         /\ IF R.ret \/ R.S.err # NoErr
            THEN pc' = "resched" /\ in_run' = TRUE /\ last' = "returned"
            ELSE pc' = "idle" /\ in_run' = FALSE /\ last' = "run_returned")
  /\ UNCHANGED <<policy, treeVars>>

\* tick: self.run_sched_loop(sched_policy); return True
s2_tick_resched ==
  /\ in_run /\ err = NoErr /\ pc = "resched"
  /\ SetSys(System_run_sched_loop(S2_Sys, policy))
  /\ pc' = "sched"
  /\ last' = "returned"
  /\ UNCHANGED <<policy, in_run, treeVars>>

ScenarioNext ==
  \/ s2_enqueue_job
  \/ s2_run
  \/ s2_tick_sched
  \/ s2_tick_events
  \/ s2_tick_resched

\* the workload of S2 enqueued and run once, under any of the policies
ScenarioSpec == Init /\ [][ScenarioNext]_vars /\ WF_pc(tick)

\* ------------------------------------- run as a whole, on the S1 workload
\* system = System(np.array([6]))
S1_total_resources == <<6>>

\* Job(timelimit, demand), in the order in which the jobs are enqueued
S1_jobs ==
  << <<2, <<1>> >>, <<3, <<1>> >>, <<5, <<2>> >>, <<4, <<6>> >>, <<3, <<1>> >>,
     <<5, <<2>> >>, <<1, <<3>> >>, <<2, <<4>> >>, <<1, <<1>> >> >>

\* other workloads are made of up to W_MaxJobs jobs of these kinds
W_MaxJobs == 4
W_jobs == {S1_jobs[3], S1_jobs[4], S1_jobs[7], S1_jobs[8]}

\* the System object of these workloads, from the variables
S1_Sys == [Sys EXCEPT !.total_resources = S1_total_resources]

\* the jobs enqueued so far are the first jobs of the S1 workload
S1_prefix ==
  /\ jobs_enqueued < Len(S1_jobs)
  /\ \A j \in 0..(jobs_enqueued - 1) :
       <<jobs[j].timelimit, jobs[j].resources>> = S1_jobs[j + 1]

\* the jobs in the sets of the node that handle_events will visit in S
NodeJobs(S) ==
  LET key == Timeline_next_event(S.timeline, S.cur_time)
  IN IF key = NIL THEN {}
     ELSE {j \in DOMAIN S.jobs : \/ j \in S.timeline[key].start
                                 \/ j \in S.timeline[key].end
                                 \/ j \in S.timeline[key].expired}

\* System.run: the System objects it can leave, one for each way in which
\* the sets of the nodes are iterated; an exception ends it
\* the System record with its timeline written out key by key
Explicit(S) == [S EXCEPT !.timeline = @ @@ @]

RECURSIVE System_run(_, _)
System_run(S, p) ==
  Bind(Explicit(System_run_sched_loop(S, p)), LAMBDA scheduled :
    IF scheduled.err # NoErr THEN {scheduled}
    ELSE UNION {
      Bind(System_handle_events(scheduled, ord), LAMBDA handled :
        IF handled.S.err # NoErr \/ ~handled.ret THEN {Explicit(handled.S)}
        ELSE Bind(Explicit(System_run_sched_loop(handled.S, p)),
                  LAMBDA rescheduled :
                    IF rescheduled.err # NoErr THEN {rescheduled}
                    ELSE System_run(rescheduled, p))) :
      ord \in OrdersOf(NodeJobs(scheduled)) })

w_enqueue_job ==
  /\ ~in_run /\ err = NoErr /\ last # "run_returned"
  /\ \E job \in {x \in W_jobs : jobs_enqueued < W_MaxJobs} \cup
                {S1_jobs[i] : i \in {i \in {jobs_enqueued + 1} : S1_prefix}} :
       IF all_geq(S1_total_resources, job[2])
       THEN SetSys(System_enqueue_job(S1_Sys, job[1], job[2], job[1]))
            /\ last' = "returned"
       ELSE SetSys(Sys) /\ last' = "ValueError"
  /\ UNCHANGED <<policy, in_run, pc, treeVars>>

\* system.run(policy), from the call to its return or exception
w_run ==
  /\ ~in_run /\ err = NoErr /\ last # "run_returned"
  /\ jobs_enqueued > 0
  /\ \E final \in System_run(S1_Sys, policy) :
       /\ SetSys(final)
       /\ last' = IF final.err = NoErr THEN "run_returned" ELSE "returned"
  /\ UNCHANGED <<policy, in_run, pc, treeVars>>

WorkloadNext ==
  \/ w_enqueue_job
  \/ w_run

\* a workload enqueued and run once, under any of the policies
WorkloadSpec == Init /\ [][WorkloadNext]_vars

\* ----------------------------------------------- properties of the System

JobIds == 0..(jobs_enqueued - 1)

\* the component-wise sum of the demands of the jobs in js
RECURSIVE DemandSum(_)
DemandSum(js) ==
  IF js = {} THEN <<0, 0>>
  ELSE LET j == CHOOSE x \in js : TRUE
       IN rsc_add(jobs[j].resources, DemandSum(js \ {j}))

JobsIn(st) == {j \in JobIds : jobs[j].state = st}

AllFinished == \A j \in JobIds : jobs[j].state = Job_FINISHED

\* every enqueued job runs for at least 1 and at most its time limit
RuntimesWithinLimit ==
  \A j \in JobIds : 1 <= jobs[j].runtime /\ jobs[j].runtime <= jobs[j].timelimit

\* C1: whenever an operation has returned, the demands of the STARTED jobs
\* sum to at most total_resources in every component.
C1_ResourceSafety ==
  err = NoErr => all_geq(TotalResources, DemandSum(JobsIn(Job_STARTED)))

\* two jobs run side by side while a third, which would not fit, waits
C1_Witness ==
  /\ err = NoErr
  /\ Cardinality(JobsIn(Job_STARTED)) >= 2
  /\ \E j \in JobIds :
       /\ jobs[j].state \in {Job_PENDING, Job_RESERVED}
       /\ ~all_geq(TotalResources,
                   rsc_add(DemandSum(JobsIn(Job_STARTED)), jobs[j].resources))

\* C2: when run(policy) has returned, finished_jobs holds every enqueued job
\* exactly once, every job is FINISHED, and pending_jobs and reserved_jobs
\* are empty.
C2_Conservation ==
  last = "run_returned" =>
    /\ Len(finished_jobs) = jobs_enqueued
    /\ {finished_jobs[i] : i \in 1..Len(finished_jobs)} = JobIds
    /\ AllFinished
    /\ pending_jobs = <<>>
    /\ reserved_jobs = <<>>

\* run returned after finishing MaxJobs jobs, not in the order of enqueueing
C2_Witness ==
  /\ last = "run_returned"
  /\ jobs_enqueued = MaxJobs
  /\ \E i \in 1..Len(finished_jobs) : finished_jobs[i] # i - 1

\* C3: with actual runtimes between 1 and the time limit, run(policy)
\* terminates (tick returns a false value) with every enqueued job FINISHED.
C3_Termination ==
  (in_run /\ RuntimesWithinLimit) ~> (~in_run /\ last = "run_returned" /\ AllFinished)

\* run is executing with a job reserved for later
C3_Witness ==
  /\ in_run /\ RuntimesWithinLimit /\ err = NoErr
  /\ jobs_enqueued = MaxJobs
  /\ reserved_jobs # <<>>

\* the projected available resources at time u: R of the last key at or
\* before u, total_resources before the first key
Projected(M, u) ==
  LET ks == {k \in DOMAIN M : k <= u}
  IN IF ks = {} THEN TotalResources ELSE M[SetMax(ks)].resources

\* the projection admits the demand dem throughout [t, t + tlim)
FitsThroughout(M, dem, tlim, t) ==
  \A u \in t..(t + tlim - 1) : all_geq(Projected(M, u), dem)

\* the times from earliest on at which a job (dem, tlim) fits; after the last
\* key the projection no longer changes
FitTimes(M, dem, tlim, earliest) ==
  LET horizon == SetMax(DOMAIN M \cup {earliest})
  IN {t \in earliest..horizon : FitsThroughout(M, dem, tlim, t)}

\* the jobs that enqueue_job accepts
Accepted == {d \in Demands : all_geq(TotalResources, d)}

\* a job that has not been enqueued, for queries to the timeline
QueryJob(tlim, dem) == [timelimit |-> tlim, resources |-> dem]

\* the times at which the timeline is queried: from before the first key
\* to after the last
QueryTimes == (0 - 1)..(SetMax(DOMAIN timeline \cup {0}) + 1)

\* C8: find_schedulable_time(j, earliest, reserve=True) returns the smallest
\* t >= earliest at which the projection admits j throughout
\* [t, t + timelimit), for every earliest, also one before the first key.
C8_FindsEarliestFit ==
  err = NoErr =>
    \A tlim \in TimeLimits, dem \in Accepted, earliest \in QueryTimes :
      LET r == Timeline_find_schedulable_time(timeline, QueryJob(tlim, dem),
                                              earliest, TRUE)
          c == FitTimes(timeline, dem, tlim, earliest)
      IN c # {} => r.kind = "time" /\ r.t = SetMin(c)

\* what the code does guarantee: the same for an earliest that is not before
\* the first key, and on the empty timeline
C8_FindsEarliestFitFromFirstKey ==
  err = NoErr =>
    \A tlim \in TimeLimits, dem \in Accepted, earliest \in QueryTimes :
      LET r == Timeline_find_schedulable_time(timeline, QueryJob(tlim, dem),
                                              earliest, TRUE)
          c == FitTimes(timeline, dem, tlim, earliest)
      IN (DOMAIN timeline = {} \/ earliest >= SetMin(DOMAIN timeline)) =>
           /\ c # {}
           /\ r.kind = "time" /\ r.t = SetMin(c)

\* C9: on a PENDING job j, start_or_reserve_job(j, True) starts j at
\* cur_time iff the projection admits j throughout [cur_time, cur_time +
\* timelimit) and otherwise reserves j at the smallest later time at which
\* it does; start_or_reserve_job(j, False) starts j under the same condition
\* and otherwise returns PENDING and changes nothing.
C9_StartOrReserve ==
  err = NoErr =>
    \A j \in JobsIn(Job_PENDING) :
      LET job == jobs[j]
          now == FitsThroughout(timeline, job.resources, job.timelimit, cur_time)
          later == FitTimes(timeline, job.resources, job.timelimit, cur_time + 1)
          T == System_start_or_reserve_job(Sys, j, TRUE)
          F == System_start_or_reserve_job(Sys, j, FALSE)
      IN /\ T.S.err = NoErr /\ F.S.err = NoErr
         /\ (T.status = Job_STARTED) <=> now
         /\ (F.status = Job_STARTED) <=> now
         /\ now => /\ T.S.jobs[j].state = Job_STARTED
                   /\ T.S.jobs[j].start_time = cur_time
                   /\ F.S = T.S
         /\ ~now => /\ T.status = Job_RESERVED
                    /\ T.S.jobs[j].state = Job_RESERVED
                    /\ later # {}
                    /\ T.S.jobs[j].start_time = SetMin(later)
                    /\ SeqHas(T.S.reserved_jobs, j)
                    /\ F.status = Job_PENDING
                    /\ F.S = Sys

\* a PENDING job that fits neither now nor at the next key
C9_Witness ==
  /\ err = NoErr
  /\ \E j \in JobsIn(Job_PENDING) :
       LET T == System_start_or_reserve_job(Sys, j, TRUE)
       IN /\ T.status = Job_RESERVED
          /\ T.S.jobs[j].start_time >= cur_time + 2
          /\ System_start_or_reserve_job(Sys, j, FALSE).status = Job_PENDING

\* the demands of the jobs in js that cover time t: a RESERVED or STARTED job
\* over [start_time, deadline)
RECURSIVE HeldAt(_, _)
HeldAt(js, t) ==
  IF js = {} THEN <<0, 0>>
  ELSE LET j == CHOOSE x \in js : TRUE
           held == /\ jobs[j].state \in {Job_RESERVED, Job_STARTED}
                   /\ jobs[j].start_time <= t /\ t < jobs[j].deadline
       IN rsc_add(IF held THEN jobs[j].resources ELSE <<0, 0>>,
                  HeldAt(js \ {j}, t))

\* the demands of the FINISHED jobs in js that ran at time t, over
\* [start_time, end_time)
RECURSIVE UsedAt(_, _)
UsedAt(js, t) ==
  IF js = {} THEN <<0, 0>>
  ELSE LET j == CHOOSE x \in js : TRUE
           used == /\ jobs[j].state = Job_FINISHED
                   /\ jobs[j].start_time <= t /\ t < jobs[j].end_time
       IN rsc_add(IF used THEN jobs[j].resources ELSE <<0, 0>>,
                  UsedAt(js \ {j}, t))

\* C10 as stated (T1): at every key t, R(t) is total_resources minus the
\* demands of the RESERVED or STARTED jobs with start_time <= t < deadline.
C10_T1 ==
  err = NoErr =>
    \A t \in DOMAIN timeline :
      timeline[t].resources = rsc_sub(TotalResources, HeldAt(JobIds, t))

\* C10, amended: at every key t, R(t) is total_resources minus the demands
\* of the RESERVED or STARTED jobs with start_time <= t < deadline and of the
\* FINISHED jobs with start_time <= t < end_time (the keys of the past keep
\* what ran at them).
C10_T1WithHistory ==
  err = NoErr =>
    \A t \in DOMAIN timeline :
      timeline[t].resources =
        rsc_sub(rsc_sub(TotalResources, HeldAt(JobIds, t)), UsedAt(JobIds, t))

\* a job has finished before its deadline while another is running and a
\* third holds a reservation
C10_Witness ==
  /\ err = NoErr
  /\ \E j \in JobsIn(Job_FINISHED) :
       jobs[j].end_time < jobs[j].start_time + jobs[j].timelimit
  /\ JobsIn(Job_STARTED) # {}
  /\ JobsIn(Job_RESERVED) # {}

\* ------------------------------------------------------------------ C11
\* the zero resource vector
NoResources == [i \in DOMAIN TotalResources |-> 0]

\* C11 (T5): whenever an operation of the System has returned, the
\* resources stored at every timeline key are >= 0 and <= total_resources
\* in every component
C11_ResourcesInRange ==
  err = NoErr =>
    \A k \in DOMAIN timeline :
      /\ all_geq(timeline[k].resources, NoResources)
      /\ all_geq(TotalResources, timeline[k].resources)

\* a reservation lies ahead and some key holds no free resources at all
C11_Witness ==
  /\ err = NoErr
  /\ JobsIn(Job_RESERVED) # {}
  /\ \E k \in DOMAIN timeline : timeline[k].resources = NoResources

\* ------------------------------------------------------------------ C12
\* timeline.add_job_reservation(j) followed by
\* timeline.remove_job_reservation(j), for the job j given the reservation
\* [start_time, start_time + timelimit)
AddThenRemove(j, start_time) ==
  Bind(Job_reserve(Sys, j, start_time), LAMBDA S1 :
    Timeline_remove_job_reservation(Timeline_add_job_reservation(S1, j), j))

\* C12: on every timeline the simulator reaches, and for every job that is
\* not in it and every start time, add_job_reservation followed by
\* remove_job_reservation raises nothing and leaves the timeline as it
\* was: the same keys, the same start/end/expired sets and the same
\* resources at every key
C12_RemoveInvertsAdd ==
  err = NoErr =>
    \A j \in JobsIn(Job_PENDING), start_time \in QueryTimes :
      Bind(AddThenRemove(j, start_time), LAMBDA S2 :
        S2.err = NoErr /\ S2.timeline = timeline)

\* the reservation creates both of its keys and spans an existing key
C12_Witness ==
  /\ err = NoErr
  /\ \E j \in JobsIn(Job_PENDING), start_time \in QueryTimes :
       /\ start_time \notin DOMAIN timeline
       /\ start_time + jobs[j].timelimit \notin DOMAIN timeline
       /\ \E k \in DOMAIN timeline :
            start_time < k /\ k < start_time + jobs[j].timelimit
       /\ AddThenRemove(j, start_time).timeline = timeline

\* ------------------------------------------------------------------ C13
\* a step in which the policy runs over the System: policy(system) called
\* by the driver, or run_sched_loop with the dirty bit set
PolicyPass ==
  \/ sched_policy
  \/ should_run_sched_loop /\ (run_sched_loop \/ tick_sched \/ tick_resched)

\* the enqueued jobs that are neither STARTED nor FINISHED
Waiting == {j \in JobIds : jobs[j].state \notin {Job_STARTED, Job_FINISHED}}

\* the first waiting job holds a reservation and the others are PENDING
HeadReserved ==
  Waiting # {} =>
    /\ jobs[SetMin(Waiting)].state = Job_RESERVED
    /\ \A j \in Waiting \ {SetMin(Waiting)} : jobs[j].state = Job_PENDING

\* C13 (EASY semantics): after every easy_backfill pass that returns, the
\* waiting job with the smallest job_id is RESERVED and all the other
\* waiting jobs are PENDING
C13_EasyHead ==
  [][(policy = easy_backfill /\ PolicyPass /\ err' = NoErr) => HeadReserved']_vars

\* an easy_backfill pass has left one job RESERVED and another PENDING
C13_Witness ==
  /\ policy = easy_backfill /\ err = NoErr /\ ~should_run_sched_loop
  /\ JobsIn(Job_RESERVED) # {} /\ JobsIn(Job_PENDING) # {}
  /\ JobsIn(Job_STARTED) # {}

\* ------------------------------------------------------------------ C14
\* after a pass with cap N: at most N reservations, and a job left PENDING
\* has N reservations before it and does not fit at cur_time
CapRespected(N) ==
  /\ Cardinality(JobsIn(Job_RESERVED)) <= N
  /\ \A j \in JobsIn(Job_PENDING) :
       /\ Cardinality({i \in JobsIn(Job_RESERVED) : i < j}) = N
       /\ ~FitsThroughout(timeline, jobs[j].resources, jobs[j].timelimit,
                          cur_time)

\* after a conservative pass: nothing is left pending
NothingPending ==
  /\ pending_jobs = <<>>
  /\ \A j \in JobIds :
       jobs[j].state \in {Job_STARTED, Job_RESERVED, Job_FINISHED}

Begun == {j \in JobIds : jobs[j].state \in {Job_STARTED, Job_FINISHED}}

\* C15 (FCFS never skips): under fcfs the jobs start in submission order:
\* of two started jobs the one with the smaller job_id has not started
\* later, no job has started while a job with a smaller job_id is
\* PENDING, and no job is RESERVED
C15_FcfsInOrder ==
  policy = fcfs_policy =>
    /\ \A i, k \in Begun : i < k => jobs[i].start_time <= jobs[k].start_time
    /\ \A k \in Begun : \A i \in JobIds : i < k => jobs[i].state # Job_PENDING
    /\ JobsIn(Job_RESERVED) = {}

\* under fcfs two jobs have started at different times and a third waits
C15_Witness ==
  /\ policy = fcfs_policy /\ err = NoErr
  /\ \E i, k \in Begun : i < k /\ jobs[i].start_time < jobs[k].start_time
  /\ JobsIn(Job_PENDING) # {}

\* ------------------------------------------------------------------ C16
\* every RESERVED job lies ahead of the clock, with its deadline set from
\* its start time and no end time
ReservationsAhead ==
  err = NoErr =>
    \A j \in JobsIn(Job_RESERVED) :
      /\ jobs[j].start_time > cur_time
      /\ jobs[j].deadline = jobs[j].start_time + jobs[j].timelimit
      /\ jobs[j].end_time = NIL

\* a step that moves the clock (handle_events) does not pass the start of
\* a reservation, and starts the job exactly when it arrives there (a job
\* whose runtime is 0 is also ended in the same call)
ClockMeetsReservations ==
  (cur_time' # cur_time /\ err' = NoErr) =>
    \A j \in JobsIn(Job_RESERVED) :
      /\ cur_time' <= jobs[j].start_time
      /\ IF cur_time' = jobs[j].start_time
         THEN /\ jobs'[j].state \in {Job_STARTED, Job_FINISHED}
              /\ jobs'[j].start_time = jobs[j].start_time
         ELSE jobs'[j] = jobs[j]

\* C16 (reservation soundness): whenever an operation has returned, every
\* RESERVED job has start_time > cur_time, deadline = start_time +
\* timelimit and no end_time; the clock never skips a reservation, and a
\* job that is still reserved when the clock reaches its start_time is
\* started there
C16_ReservationSound ==
  []ReservationsAhead /\ [][ClockMeetsReservations]_vars

\* handle_events has just started a reserved job at its start time while
\* another reservation still lies ahead
C16_Witness ==
  /\ in_run /\ pc = "resched" /\ err = NoErr
  /\ \E j \in JobsIn(Job_STARTED) : jobs[j].start_time = cur_time
  /\ JobsIn(Job_RESERVED) # {}

\* ------------------------------------------------------------------ C17
\* the states a job in state st can be in after one operation of the
\* System, each a path along NEW->PENDING, PENDING->RESERVED,
\* RESERVED->PENDING, PENDING->STARTED, RESERVED->STARTED and
\* STARTED->FINISHED. A policy pass can unreserve a job and reserve or
\* start it again; handle_events can start a reserved job and end it.
AfterOneOperation(st) ==
  IF st = Job_PENDING THEN {Job_PENDING, Job_RESERVED, Job_STARTED}
  ELSE IF st = Job_RESERVED
  THEN {Job_RESERVED, Job_PENDING, Job_STARTED, Job_FINISHED}
  ELSE IF st = Job_STARTED THEN {Job_STARTED, Job_FINISHED}
  ELSE {Job_FINISHED}

\* one operation of the System moves every job along the lifecycle
LifecycleStep ==
  /\ \A j \in JobIds :
       /\ jobs'[j].state \in AfterOneOperation(jobs[j].state)
       /\ jobs[j].state \in {Job_STARTED, Job_FINISHED} =>
            /\ jobs'[j].start_time = jobs[j].start_time
            /\ jobs'[j].deadline = jobs[j].deadline
       /\ jobs[j].state = Job_FINISHED => jobs'[j] = jobs[j]
       /\ (jobs[j].state = Job_RESERVED /\ jobs'[j].state = Job_FINISHED) =>
            jobs'[j].start_time = jobs'[j].end_time
  /\ \A j \in DOMAIN jobs' \ JobIds : jobs'[j].state = Job_PENDING
  /\ \A a, b \in 1..Len(finished_jobs') :
       a # b => finished_jobs'[a] # finished_jobs'[b]

\* C17 (job lifecycle): every operation of the System (enqueue_job, a
\* policy pass, handle_events, raising or not) changes each job's state
\* only along the lifecycle; a started job keeps its start time and
\* deadline, a FINISHED job never changes again and is in finished_jobs
\* once
C17_Lifecycle == [][LifecycleStep]_vars

\* jobs have been through the lifecycle under a backfill policy: one is
\* FINISHED that was started after time 0, and a later one is STARTED
C17_Witness ==
  /\ err = NoErr /\ policy = conservative_backfill
  /\ \E j \in JobsIn(Job_FINISHED), k \in JobsIn(Job_STARTED) :
       jobs[j].start_time > 0 /\ jobs[k].start_time > jobs[j].start_time

\* ------------------------------------------------------------------ C18
\* the System object is as it was before the step
SystemUnchanged ==
  UNCHANGED <<cur_time, jobs_enqueued, should_run_sched_loop, jobs,
              pending_jobs, finished_jobs, reserved_jobs, timeline, err>>

\* the job got the next id and went to the back of pending_jobs
EnqueuedNext(tlim, dem) ==
  /\ DOMAIN jobs = 0..(jobs_enqueued - 1)
  /\ jobs_enqueued' = jobs_enqueued + 1
  /\ DOMAIN jobs' = 0..jobs_enqueued
  /\ \A j \in DOMAIN jobs : jobs'[j] = jobs[j]
  /\ jobs'[jobs_enqueued].state = Job_PENDING
  /\ jobs'[jobs_enqueued].resources = dem
  /\ jobs'[jobs_enqueued].timelimit = tlim
  /\ pending_jobs' = Append(pending_jobs, jobs_enqueued)
  /\ should_run_sched_loop'
  /\ last' = "returned"

\* C18: enqueue_job of a job whose demand exceeds total_resources in some
\* component raises ValueError and leaves the System unchanged (ids,
\* pending_jobs, dirty bit, timeline); an accepted job gets the next
\* consecutive job_id
C18_EnqueueRejects ==
  [][\A tlim \in TimeLimits, dem \in Demands, rt \in Runtimes :
       enqueue_job(tlim, dem, rt) =>
         IF \E i \in DOMAIN dem : dem[i] > TotalResources[i]
         THEN last' = "ValueError" /\ SystemUnchanged
         ELSE EnqueuedNext(tlim, dem)]_vars

\* a job has just been rejected by a System that holds jobs and a timeline
C18_Witness ==
  /\ last = "ValueError"
  /\ jobs_enqueued >= 2
  /\ DOMAIN timeline # {}
  /\ ~should_run_sched_loop

\* ------------------------------------------------------------------ C19
\* the bounds handed to items: absent, a key, or just outside the keys
IterBounds == {NIL} \cup (0..(NKeys + 1))

\* the entries of the dictionary d with lo <= key < hi (a bound NIL is
\* absent), ascending, or descending when rev
RangeOf(d, lo, hi, rev) ==
  LET ks == SortedSeq({k \in DOMAIN d : (lo # NIL => lo <= k) /\ (hi # NIL => k < hi)})
      n == Len(ks)
  IN [i \in 1..n |-> IF rev THEN <<ks[n + 1 - i], d[ks[n + 1 - i]]>>
                     ELSE <<ks[i], d[ks[i]]>>]

\* C19 (range iteration): for AVLTree and RBTree and any bounds lo, hi,
\* each possibly absent, items(lo, hi) yields exactly the entries with
\* lo <= key < hi in ascending order and items(lo, hi, reverse=True) the
\* same entries in descending order; an empty range yields nothing; when
\* lo > hi the result is that of items(hi, lo)
C19_RangeIteration ==
  \A lo \in IterBounds, hi \in IterBounds, rev \in BOOLEAN :
    Bind(Tree_items(tree, lo, hi, rev), LAMBDA r :
      IF lo # NIL /\ hi # NIL /\ lo > hi
      THEN r = RangeOf(ref, hi, lo, rev) /\ r = Tree_items(tree, hi, lo, rev)
      ELSE r = RangeOf(ref, lo, hi, rev))

\* a map of at least four keys in which a proper range holds two entries,
\* the swapped reversed range starts at its larger one, and [3, 3) is empty
C19_Witness ==
  /\ tree.len >= 4
  /\ Len(Tree_items(tree, 2, 4, FALSE)) = 2
  /\ Tree_items(tree, 4, 2, TRUE)[1][1] = 3
  /\ Tree_items(tree, 3, 3, FALSE) = <<>>
  /\ Len(Tree_items(tree, NIL, 3, TRUE)) = 2

\* ------------------------------------------------------------------ C20
\* C20: for every map content and every k, lower_bound(k) returns the
\* entry with the smallest key >= k, and None when there is no such key
\* (the empty map included)
C20_LowerBound ==
  \A k \in 0..(NKeys + 1) :
    LET geq == {x \in DOMAIN ref : x >= k}
    IN Tree_lower_bound(tree, k) =
         IF geq = {} THEN RetVal(NoVal)
         ELSE RetPair(SetMin(geq), ref[SetMin(geq)])

\* lower_bound steps over a gap to a later key, finds a key that is
\* present, and finds nothing above the last key
C20_Witness ==
  /\ DOMAIN ref = {1, 2, NKeys}
  /\ Tree_lower_bound(tree, 3) = RetPair(NKeys, ref[NKeys])
  /\ Tree_lower_bound(tree, 2) = RetPair(2, ref[2])
  /\ Tree_lower_bound(tree, NKeys + 1) = RetVal(NoVal)

\* ------------------------------------------------------------------ C21
\* C21 as stated: for every map content and every k, upper_bound(k)
\* returns the entry with the smallest key strictly greater than k, and
\* None when there is no such key
C21_UpperBoundIsSuccessor ==
  \A k \in 0..(NKeys + 1) :
    LET gt == {x \in DOMAIN ref : x > k}
    IN Tree_upper_bound(tree, k) =
         IF gt = {} THEN RetVal(NoVal)
         ELSE RetPair(SetMin(gt), ref[SetMin(gt)])

\* C21 amended: for every map content and every k, upper_bound(k) returns
\* the entry with the largest key strictly less than k, and None when
\* there is no such key (the empty map included)
C21_UpperBoundIsPredecessor ==
  \A k \in 0..(NKeys + 1) :
    LET lt == {x \in DOMAIN ref : x < k}
    IN Tree_upper_bound(tree, k) =
         IF lt = {} THEN RetVal(NoVal)
         ELSE RetPair(SetMax(lt), ref[SetMax(lt)])

\* upper_bound of a present key, of a key in a gap and of the first key
C21_Witness ==
  /\ DOMAIN ref = {1, 2, NKeys}
  /\ Tree_upper_bound(tree, NKeys) = RetPair(2, ref[2])
  /\ Tree_upper_bound(tree, 3) = RetPair(2, ref[2])
  /\ Tree_upper_bound(tree, 1) = RetVal(NoVal)

\* ------------------------------------------------------------------ C22
\* the operation raised exc and left the map exactly as it was
RaisedUntouched(R, exc) == R.ret = RetRaise(exc) /\ R.T = tree

\* the operation raised nothing
Returned(R) == R.ret.kind \in {"value", "pair"}

\* C22: tree[k], del tree[k] and pop(k) without a default raise KeyError
\* exactly when k is absent; min, max, pop_min and pop_max raise IndexError
\* exactly when the map is empty; and in every error case the map (contents,
\* len, structure, threading) is unchanged
C22_ErrorsLeaveMapUnchanged ==
  /\ \A k \in 0..(NKeys + 1) :
       IF k \in DOMAIN ref
       THEN /\ Returned(Tree_getitem(tree, k))
            /\ Returned(Tree_delitem(tree, k))
            /\ Returned(Tree_pop(tree, k))
       ELSE /\ RaisedUntouched(Tree_getitem(tree, k), "KeyError")
            /\ RaisedUntouched(Tree_delitem(tree, k), "KeyError")
            /\ RaisedUntouched(Tree_pop(tree, k), "KeyError")
  /\ IF DOMAIN ref # {}
     THEN /\ Returned(Tree_min(tree))
          /\ Returned(Tree_max(tree))
          /\ Returned(Tree_pop_min(tree))
          /\ Returned(Tree_pop_max(tree))
     ELSE /\ RaisedUntouched(Tree_min(tree), "IndexError")
          /\ RaisedUntouched(Tree_max(tree), "IndexError")
          /\ RaisedUntouched(Tree_pop_min(tree), "IndexError")
          /\ RaisedUntouched(Tree_pop_max(tree), "IndexError")

\* a rule has just raised KeyError on a map that still holds three entries
C22_Witness ==
  /\ ret = RetRaise("KeyError")
  /\ refRet = ret
  /\ tree.len = 3
  /\ DOMAIN ref = {1, 3, NKeys}
  /\ Tree_delitem(tree, 2).ret = RetRaise("KeyError")

\* ------------------------------------------------------------------ C23
\* the jobs in reserved_jobs
FormerlyReserved == {reserved_jobs[i] : i \in 1..Len(reserved_jobs)}

\* the state S right after unreserve_all_jobs was called in this state
Unreserved(S) ==
  /\ S.err = NoErr
  /\ S.reserved_jobs = <<>>
  /\ \A j \in JobIds : S.jobs[j].state # Job_RESERVED
  /\ \A t \in DOMAIN S.timeline :
       (S.timeline[t].start \cup S.timeline[t].end \cup S.timeline[t].expired)
         \cap FormerlyReserved = {}
  /\ S.pending_jobs = SortedSeq(FormerlyReserved) \o pending_jobs

\* C23: in every state the simulator reaches, immediately after
\* unreserve_all_jobs() reserved_jobs is empty, no job is RESERVED, the
\* timeline holds no entry of a formerly reserved job, and pending_jobs is
\* the formerly reserved jobs in ascending job_id order followed by the
\* previously pending jobs in unchanged order
C23_UnreserveAll ==
  err = NoErr => Unreserved(System_unreserve_all_jobs(Sys))

\* two reservations are taken back and put in front in job_id order
C23_Witness ==
  /\ err = NoErr
  /\ Cardinality(FormerlyReserved) = 2
  /\ JobsIn(Job_STARTED) # {}
  /\ System_unreserve_all_jobs(Sys).pending_jobs = <<1, 2>>

\* ------------------------------------------------------------------ C24
\* the elements of the sequence q from position a to position b
SeqRange(q, a, b) == {q[i] : i \in a..b}

\* what the node at the key t holds when handle_events moves the clock to t
MarkedStart(t) == timeline[t].start
\* the jobs the second loop finds in node.end: those marked end, and the
\* jobs the first loop started with nothing to run
MarkedEnd(t) ==
  timeline[t].end \cup {j \in timeline[t].start : jobs[j].runtime = 0}
\* the jobs still in node.expired when the third loop is reached
StillExpired(t) == timeline[t].expired \ timeline[t].end

\* one handle_events call, seen from its two ends: the jobs marked start are
\* started (and ended too when they were picked up by the loop over
\* node.end, which therefore ran after the starts), and finished_jobs has
\* grown by the jobs marked end followed by the jobs still marked expired
StartsEndsExpired(t) ==
  /\ t \in DOMAIN timeline
  /\ \A j \in MarkedStart(t) :
       /\ jobs'[j].start_time = t
       /\ jobs'[j].state = IF jobs[j].runtime = 0 THEN Job_FINISHED
                           ELSE Job_STARTED
  /\ LET n == Len(finished_jobs)
         m == Len(finished_jobs')
         e == Cardinality(MarkedEnd(t))
     IN /\ m = n + e + Cardinality(StillExpired(t))
        /\ SubSeq(finished_jobs', 1, n) = finished_jobs
        /\ SeqRange(finished_jobs', n + 1, n + e) = MarkedEnd(t)
        /\ SeqRange(finished_jobs', n + e + 1, m) = StillExpired(t)

\* C24: within one handle_events call that moves the clock, every reserved
\* job marked start at the new key is started before any job marked end is
\* ended, and every job marked end is ended before any job still marked
\* expired is ended
C24_StartEndExpiredOrder ==
  [][(cur_time' # cur_time /\ err' = NoErr) => StartsEndsExpired(cur_time')]_vars

\* at key 1 job 2 was started, job 1 was ended from node.end and then job 0,
\* which overran its time limit, from node.expired
C24_Witness ==
  /\ err = NoErr /\ cur_time = 1
  /\ finished_jobs = <<1, 0>>
  /\ jobs[0].runtime > jobs[0].timelimit
  /\ jobs[1].runtime = jobs[1].timelimit
  /\ jobs_enqueued = 3
  /\ jobs[2].state = Job_STARTED /\ jobs[2].start_time = 1

\* ------------------------------------------------------------------ C25
\* C25 as stated: the jobs in one category at one key are processed in a
\* fixed order (the order of insertion into the key's set), so that the
\* order of finished_jobs is determined by the jobs, the policy and the
\* runtimes: whatever order the sets are iterated in, handle_events leaves
\* the same finished_jobs when it returns
C25_FinishedOrderDetermined ==
  err = NoErr =>
    \A o1, o2 \in JobOrders :
      Bind(System_handle_events(Sys, o1).S, LAMBDA S1 :
      Bind(System_handle_events(Sys, o2).S, LAMBDA S2 :
        (S1.err = NoErr /\ S2.err = NoErr) =>
          S1.finished_jobs = S2.finished_jobs))

\* ------------------------------------------------------------------ C26
\* the timeline keys after the clock
KeysAhead == {k \in DOMAIN timeline : k > cur_time}

\* handle_events called in this state with the sets iterated in order ord
ClockAdvance(ord) ==
  Bind(System_handle_events(Sys, ord), LAMBDA R :
    IF KeysAhead = {} THEN ~R.ret /\ R.S = Sys
    ELSE R.S.err = NoErr =>
           /\ R.ret
           /\ R.S.cur_time = SetMin(KeysAhead)
           /\ R.S.cur_time > cur_time)

\* tick called on a System that never had a job and has an empty timeline
IdleTick(p, ord) ==
  (jobs_enqueued = 0 /\ DOMAIN timeline = {}) =>
    /\ ~should_run_sched_loop
    /\ System_tick(Sys, p, ord) = [S |-> Sys, ret |-> FALSE]

\* C26: in every state the simulator reaches, a handle_events call that
\* returns True sets cur_time to the smallest timeline key above the
\* previous cur_time; with no such key it returns False and changes nothing;
\* and tick on a System with no jobs and an empty timeline returns a false
\* value, does not call the policy and changes nothing
C26_ClockAdvance ==
  err = NoErr =>
    \A ord \in JobOrders :
      /\ ClockAdvance(ord)
      /\ \A p \in Policies : IdleTick(p, ord)

\* the clock jumps over a gap to the next key, past keys staying behind
C26_Witness ==
  /\ err = NoErr /\ cur_time > 0
  /\ KeysAhead # {} /\ SetMin(KeysAhead) > cur_time + 1
  /\ \E ord \in JobOrders :
       /\ System_handle_events(Sys, ord).ret
       /\ System_handle_events(Sys, ord).S.cur_time = SetMin(KeysAhead)

\* ------------------------------------------------------------------ C27
\* the running jobs that will not be done by their deadline
Overrunning == {j \in JobsIn(Job_STARTED) : jobs[j].runtime > jobs[j].timelimit}

\* a handle_events call ends the overrunning jobs whose deadline is the
\* new cur_time, there and then, takes their end entry off the later key,
\* and leaves the other overrunning jobs running
EndedAtDeadline ==
  \A j \in Overrunning :
    IF jobs[j].deadline = cur_time'
    THEN /\ jobs'[j].state = Job_FINISHED
         /\ jobs'[j].end_time = jobs[j].deadline
         /\ jobs'[j].deadline = jobs[j].deadline
         /\ \A k \in DOMAIN timeline' : k > cur_time' => j \notin timeline'[k].end
    ELSE jobs'[j] = jobs[j]

\* no job is running past its deadline
NoneOverdue ==
  \A j \in JobsIn(Job_STARTED) : cur_time <= jobs[j].deadline

\* the finished jobs ran inside their time limits
FinishedInLimits ==
  \A j \in JobsIn(Job_FINISHED) :
    /\ jobs[j].start_time <= jobs[j].end_time
    /\ jobs[j].end_time <= jobs[j].deadline
    /\ jobs[j].deadline = jobs[j].start_time + jobs[j].timelimit

\* C27 (deadline enforcement): a job whose actual runtime exceeds its time
\* limit is ended by handle_events at exactly its deadline, with end_time
\* set to the deadline and its later end entry removed; once handle_events
\* has returned no job is STARTED with cur_time past its deadline; and
\* every FINISHED job has start_time <= end_time <= deadline = start_time +
\* timelimit
C27_DeadlineEnforced ==
  /\ [](err = NoErr => NoneOverdue /\ FinishedInLimits)
  /\ [][(cur_time' # cur_time /\ err' = NoErr) => EndedAtDeadline]_vars

\* a job that needed more than its time limit was cut off at its deadline
C27_Witness ==
  /\ err = NoErr
  /\ \E j \in JobsIn(Job_FINISHED) :
       /\ jobs[j].runtime > jobs[j].timelimit
       /\ jobs[j].start_time > 0
       /\ jobs[j].end_time = jobs[j].deadline
       /\ cur_time = jobs[j].deadline
       /\ \A k \in DOMAIN timeline : k > cur_time => j \notin timeline[k].end

\* ------------------------------------------------------------------ C28
\* the job j is running and needs no more than its time limit
StartedWithin(j) ==
  /\ j \in JobIds /\ err = NoErr
  /\ jobs[j].state = Job_STARTED
  /\ 0 <= jobs[j].runtime /\ jobs[j].runtime <= jobs[j].timelimit

\* the job j completed after its actual runtime
CompletedEarly(j) ==
  /\ j \in JobIds
  /\ jobs[j].state = Job_FINISHED
  /\ jobs[j].end_time = jobs[j].start_time + jobs[j].runtime

\* C28 as stated: while run(policy) executes, every job started with an
\* actual runtime r, 0 <= r <= timelimit, becomes FINISHED with end_time =
\* start_time + r
C28_StartedJobsFinish ==
  \A j \in 0..(MaxJobs - 1) : StartedWithin(j) ~> CompletedEarly(j)

\* every enqueued job has something to run
AllRunSomething == \A j \in JobIds : jobs[j].runtime >= 1

\* the same for 1 <= r <= timelimit, when no job has a runtime of 0
C28_PositiveRuntimesFinish ==
  \A j \in 0..(MaxJobs - 1) :
    (StartedWithin(j) /\ AllRunSomething) ~> CompletedEarly(j)

\* the jobs that a step ends before their deadline, at the new cur_time
EndingEarly ==
  {j \in JobIds : /\ jobs[j].state # Job_FINISHED
                  /\ jobs'[j].state = Job_FINISHED
                  /\ jobs'[j].end_time < jobs'[j].deadline}

\* the demand of a job ended early is credited back on every key in
\* [end_time, deadline), and nothing else changes the resources projected
\* at a key
CreditedBack ==
  \A k \in DOMAIN timeline' :
    timeline'[k].resources =
      rsc_add(Projected(timeline, k),
              DemandSum({j \in EndingEarly :
                           cur_time' <= k /\ k < jobs'[j].deadline}))

\* on every clock step that returns, the jobs ended before their deadline
\* have end_time = start_time + r and their demand is credited back on
\* every key in [end_time, deadline)
C28_EarlyEndCredited ==
  [][(cur_time' # cur_time /\ err' = NoErr) =>
       /\ CreditedBack
       /\ \A j \in EndingEarly :
            jobs'[j].end_time = jobs'[j].start_time + jobs[j].runtime]_vars

\* ------------------------------------------------------------------ C29
\* the case of scenario S2: the whole workload, default runtimes, EASY
S2Case ==
  /\ policy = easy_backfill
  /\ jobs_enqueued = Len(S2_jobs)
  /\ \A j \in JobIds : jobs[j].runtime = jobs[j].timelimit

\* the job j has been started
Begun2(j) == jobs[j].state \in {Job_STARTED, Job_FINISHED}

\* the first policy pass of run is over
FirstPassOver == cur_time > 0 \/ (in_run /\ pc = "events")

\* jobs 0 and 1 start at 0 in the first pass, job 2 starts at 10 and not
\* before, nothing is raised, and run returns with cur_time = 18
S2Starts ==
  /\ err = NoErr
  /\ \A j \in {0, 1} : Begun2(j) => jobs[j].start_time = 0
  /\ FirstPassOver => Begun2(0) /\ Begun2(1)
  /\ Begun2(2) <=> cur_time >= 10
  /\ Begun2(2) => jobs[2].start_time = 10
  /\ cur_time <= 18
  /\ last = "run_returned" => cur_time = 18 /\ AllFinished

\* C29 (scenario S2): with total_resources = [5], the jobs (10,2), (5,3),
\* (5,5), (3,3), (3,1), (2,2) enqueued in that order, default runtimes and
\* easy_backfill, jobs 0 and 1 start at t = 0, job 2 starts at t = 10, and
\* run returns with cur_time = 18
C29_ScenarioS2 ==
  /\ [](S2Case => S2Starts)
  /\ (S2Case /\ in_run) ~> (S2Case /\ last = "run_returned" /\ cur_time = 18)

\* run has returned at 18 with the three jobs started at 0, 0 and 10
C29_Witness ==
  /\ S2Case /\ last = "run_returned" /\ cur_time = 18
  /\ jobs[0].start_time = 0 /\ jobs[1].start_time = 0
  /\ jobs[2].start_time = 10 /\ jobs[2].state = Job_FINISHED

\* ------------------------------------------------------------------ C30
\* the job j holds a reservation or has been started
Placed(j) == jobs[j].state \in {Job_RESERVED, Job_STARTED, Job_FINISHED}

\* C30 as stated (scenario S2, backfill details): job 3 is reserved at
\* t = 15, and jobs 4 and 5 both start at t = 10
C30_S2BackfillAsStated ==
  S2Case =>
    /\ Placed(3) => jobs[3].start_time = 15
    /\ \A j \in {4, 5} : Begun2(j) => jobs[j].start_time = 10

\* the policy pass that follows the events of time t is over
PassOverAt(t) == cur_time > t \/ (cur_time = t /\ pc # "resched")

\* job 3 starts at 5 and job 5 at 8, neither ever reserved; job 4 is
\* reserved at 15 by the pass at 10 and starts at 15
S2Backfill ==
  /\ err = NoErr
  /\ jobs[3].state # Job_RESERVED /\ jobs[5].state # Job_RESERVED
  /\ Begun2(3) <=> PassOverAt(5)
  /\ Begun2(3) => jobs[3].start_time = 5
  /\ Begun2(5) <=> PassOverAt(8)
  /\ Begun2(5) => jobs[5].start_time = 8
  /\ Placed(4) => jobs[4].start_time = 15
  /\ jobs[4].state = Job_RESERVED <=> (cur_time = 10 /\ PassOverAt(10))
  /\ Begun2(4) <=> cur_time >= 15

\* C30 amended (scenario S2, backfill details): job 3 (demand 3) is never
\* reserved and starts at t = 5, job 5 (demand 2) starts at t = 8, and job 4
\* (demand 1) is reserved at t = 15 by the pass at t = 10 and starts at
\* t = 15
C30_S2Backfill ==
  /\ [](S2Case => S2Backfill)
  /\ (S2Case /\ in_run) ~> (S2Case /\ AllFinished /\ jobs[4].start_time = 15)

\* the pass at 10 has reserved job 4 at 15, jobs 3 and 5 being done
C30_Witness ==
  /\ S2Case /\ cur_time = 10
  /\ jobs[4].state = Job_RESERVED /\ jobs[4].start_time = 15
  /\ jobs[3].state = Job_FINISHED /\ jobs[3].start_time = 5
  /\ jobs[5].state = Job_FINISHED /\ jobs[5].start_time = 8
  /\ jobs[2].state = Job_STARTED

\* ------------------------------------------------------------------ C31
\* a workload is enqueued and run has not been called
Enqueued == ~in_run /\ err = NoErr /\ last # "run_returned" /\ jobs_enqueued > 0

\* the workload is S1
S1Workload ==
  /\ jobs_enqueued = Len(S1_jobs)
  /\ \A j \in JobIds : <<jobs[j].timelimit, jobs[j].resources>> = S1_jobs[j + 1]

\* run under conservative_backfill ends no later than under easy_backfill,
\* whatever the iteration orders, and neither raises
ConservativeNotWorse ==
  \A cons \in System_run(S1_Sys, conservative_backfill),
     easy \in System_run(S1_Sys, easy_backfill) :
    cons.err = NoErr /\ easy.err = NoErr /\ cons.cur_time <= easy.cur_time

\* C31 as stated: for every workload of jobs with default runtimes, the
\* makespan (cur_time after run) under conservative_backfill is <= the
\* makespan under easy_backfill for the same workload
C31_ConservativeNeverWorse == Enqueued => ConservativeNotWorse

\* C31 amended: for the S1 workload (total = [6], jobs (2,1), (3,1), (5,2),
\* (4,6), (3,1), (5,2), (1,3), (2,4), (1,1), default runtimes) the makespan
\* under conservative_backfill, 14, is <= the makespan under easy_backfill,
\* 14
C31_S1ConservativeNotWorse ==
  (Enqueued /\ S1Workload) =>
    /\ ConservativeNotWorse
    /\ \A p \in {conservative_backfill, easy_backfill} :
         \A final \in System_run(S1_Sys, p) : final.cur_time = 14

\* run has returned from the S1 workload under conservative_backfill
C31_Witness ==
  /\ S1Workload /\ policy = conservative_backfill
  /\ last = "run_returned" /\ err = NoErr /\ cur_time = 14
  /\ AllFinished

\* ------------------------------------------------------------------ C32
\* the jobs that this step makes FINISHED
Finishing ==
  {j \in JobIds : jobs[j].state # Job_FINISHED /\ jobs'[j].state = Job_FINISHED}

\* the keys of the timeline M whose set f holds job j
KeysHolding(M, f, j) == {k \in DOMAIN M : j \in M[k][f]}

\* job j is once in the queue q
OnceIn(q, j) == Cardinality({i \in 1..Len(q) : q[i] = j}) = 1

\* C32 as stated: a job that becomes FINISHED is appended to finished_jobs
\* and is in the start, end and expired set of no timeline key any more.
C32_FinishedLeavesTimeline ==
  [][err' = NoErr =>
       \A j \in Finishing :
         /\ OnceIn(finished_jobs', j)
         /\ KeysHolding(timeline', "start", j) = {}
         /\ KeysHolding(timeline', "end", j) = {}
         /\ KeysHolding(timeline', "expired", j) = {}]_vars

\* C32 (amended): a job that becomes FINISHED is appended to finished_jobs
\* and leaves every expired set; its start entry stays at the key
\* start_time and its end entry is at the key end_time, the time of the
\* step; and every FINISHED job keeps exactly these two entries.
C32_FinishedKeepsStartAndEnd ==
  /\ [][err' = NoErr =>
          \A j \in Finishing :
            /\ OnceIn(finished_jobs', j)
            /\ ~OnceIn(finished_jobs, j)
            /\ jobs'[j].end_time = cur_time'
            /\ KeysHolding(timeline', "expired", j) = {}
            /\ KeysHolding(timeline', "start", j) = {jobs'[j].start_time}
            /\ KeysHolding(timeline', "end", j) = {jobs'[j].end_time}]_vars
  /\ [](err = NoErr =>
          \A j \in JobsIn(Job_FINISHED) :
            /\ OnceIn(finished_jobs, j)
            /\ KeysHolding(timeline, "expired", j) = {}
            /\ KeysHolding(timeline, "start", j) = {jobs[j].start_time}
            /\ KeysHolding(timeline, "end", j) = {jobs[j].end_time})

\* a job was ended before its slated end and is still in the timeline
C32_Witness ==
  /\ err = NoErr
  /\ \E j \in JobsIn(Job_FINISHED) :
       /\ jobs[j].end_time < jobs[j].deadline
       /\ jobs[j].start_time < jobs[j].end_time
       /\ OnceIn(finished_jobs, j)
       /\ j \in timeline[jobs[j].start_time].start
       /\ j \in timeline[jobs[j].end_time].end

\* ------------------------------------------------------------------ C33
\* the outcomes of start_or_reserve_job on the PENDING jobs of the state
ReserveOutcomes ==
  \A j \in JobsIn(Job_PENDING) :
    LET T == System_start_or_reserve_job(Sys, j, TRUE)
        F == System_start_or_reserve_job(Sys, j, FALSE)
    IN /\ T.S.err = NoErr /\ F.S.err = NoErr
       /\ T.status \in {Job_STARTED, Job_RESERVED}
       /\ F.status \in {Job_STARTED, Job_PENDING}

\* C33: with accepted jobs whose runtimes are >= 1, also above the time
\* limit, no operation of the System raises RuntimeError or fails an assert
\* (of System, Timeline or the policies), start_or_reserve_job(j, True)
\* returns STARTED or RESERVED and start_or_reserve_job(j, False) returns
\* STARTED or PENDING.
C33_NoLogicError ==
  AllRunSomething => err = NoErr /\ ReserveOutcomes

\* a job running past its limit while another waits with reservations made
C33_Witness ==
  /\ AllRunSomething /\ err = NoErr
  /\ \E j \in JobsIn(Job_STARTED) : jobs[j].runtime > jobs[j].timelimit
  /\ \E j \in JobsIn(Job_PENDING) :
       System_start_or_reserve_job(Sys, j, TRUE).status = Job_RESERVED
  /\ JobsIn(Job_RESERVED) # {}

\* ------------------------------------------------------------------ C34
\* the keys of every set that holds job j
AllKeysHolding(j) ==
  KeysHolding(timeline, "start", j) \cup KeysHolding(timeline, "end", j)
    \cup KeysHolding(timeline, "expired", j)

\* C34 (T2/T3): once an operation has returned, a RESERVED or STARTED job
\* is in the start set of the key start_time and of no other key, and in
\* the expired set of the key deadline and of no other key; a STARTED job
\* is also in the end set of the key end_time and of no other key; a
\* RESERVED job is in no end set; a PENDING job, and a job that was never
\* enqueued, is in no set of any key.
C34_EventEntries ==
  err = NoErr =>
    /\ \A j \in JobsIn(Job_RESERVED) \cup JobsIn(Job_STARTED) :
         /\ KeysHolding(timeline, "start", j) = {jobs[j].start_time}
         /\ KeysHolding(timeline, "expired", j) = {jobs[j].deadline}
    /\ \A j \in JobsIn(Job_STARTED) :
         KeysHolding(timeline, "end", j) = {jobs[j].end_time}
    /\ \A j \in JobsIn(Job_RESERVED) : KeysHolding(timeline, "end", j) = {}
    /\ \A j \in JobsIn(Job_PENDING) : AllKeysHolding(j) = {}
    /\ \A k \in DOMAIN timeline :
         timeline[k].start \cup timeline[k].end \cup timeline[k].expired
           \subseteq JobIds

\* a running job, a reserved job and a job waiting in the queue, with keys
\* of the other jobs in the timeline
C34_Witness ==
  /\ err = NoErr
  /\ JobsIn(Job_STARTED) # {} /\ JobsIn(Job_RESERVED) # {}
  /\ JobsIn(Job_PENDING) # {}
  /\ \E j \in JobsIn(Job_STARTED) : jobs[j].end_time # jobs[j].deadline

\* ------------------------------------------------------------------ C35
\* the keys of the timeline M whose three sets are all empty
EmptyKeys(M) ==
  {k \in DOMAIN M : M[k].start = {} /\ M[k].end = {} /\ M[k].expired = {}}

\* the Timeline operations a state admits: a reservation added for a
\* PENDING job, at cur_time or later; a RESERVED job's reservation removed;
\* a job started at cur_time; a STARTED job ended at cur_time
TimelineOperations ==
  {Timeline_add_job_reservation(Job_reserve(Sys, j, t), j) :
     j \in JobsIn(Job_PENDING), t \in cur_time..(cur_time + MaxTL)}
  \cup {Timeline_remove_job_reservation(Sys, j) : j \in JobsIn(Job_RESERVED)}
  \cup {Timeline_start_job_reservation(
          Timeline_add_job_reservation(Job_start(Sys, j), j), j) :
          j \in JobsIn(Job_PENDING)}
  \cup {Timeline_end_job_reservation(Sys, j, cur_time) :
          j \in {x \in JobsIn(Job_STARTED) : cur_time <= jobs[x].end_time}}

\* C35 (T4): after every System operation, and after every Timeline
\* operation (add_job_reservation, remove_job_reservation,
\* start_job_reservation, end_job_reservation) applied to the state it
\* left, no key of the timeline has its start, end and expired sets all
\* empty.
C35_NoEmptyKeys ==
  err = NoErr =>
    /\ EmptyKeys(timeline) = {}
    /\ \A S \in TimelineOperations : S.err = NoErr => EmptyKeys(S.timeline) = {}

\* a reservation whose removal empties both of its keys, next to a key
\* that stays
C35_Witness ==
  /\ err = NoErr
  /\ \E j \in JobsIn(Job_RESERVED) :
       /\ timeline[jobs[j].start_time].start = {j}
       /\ timeline[jobs[j].start_time].end = {}
       /\ timeline[jobs[j].start_time].expired = {}
       /\ DOMAIN Timeline_remove_job_reservation(Sys, j).timeline
            \subseteq DOMAIN timeline \ {jobs[j].start_time}
       /\ Timeline_remove_job_reservation(Sys, j).timeline # << >>

\* ------------------------------------------------------------------ C36
\* the instants from cur_time to past the last key
InstantsAhead == cur_time..(SetMax(DOMAIN timeline \cup {cur_time}) + 1)

\* what the RESERVED and STARTED jobs leave free at time t
FreeAt(t) == rsc_sub(TotalResources, HeldAt(JobIds, t))

\* the projection ahead of cur_time is what the live jobs leave free
ForwardProjection ==
  err = NoErr =>
    /\ \A t \in DOMAIN timeline :
         t >= cur_time => timeline[t].resources = FreeAt(t)
    /\ timeline # << >> => \E k \in DOMAIN timeline : k <= cur_time
    /\ \A t \in InstantsAhead \ DOMAIN timeline :
         Timeline_get_data(Sys, t).timeline[t].resources = FreeAt(t)
    /\ \A u \in InstantsAhead : Projected(timeline, u) = FreeAt(u)

\* C36 (forward projection): once an operation has returned, R(t) at every
\* key t >= cur_time is total_resources minus the demands of the RESERVED
\* and STARTED jobs with start_time <= t < deadline; a timeline that is not
\* empty has a key <= cur_time; a key created at an instant >= cur_time,
\* cloning its predecessor's R, receives that value too; and the
\* projection at every instant >= cur_time, key or not, is that value, also
\* after an operation that has deleted emptied keys ahead of cur_time.
C36_ForwardProjection ==
  /\ []ForwardProjection
  /\ [][(\E k \in DOMAIN timeline \ DOMAIN timeline' : k >= cur_time')
          => ForwardProjection']_vars

\* reservations and a running job ahead of cur_time, with an instant between
\* two keys, after a job has ended early
C36_Witness ==
  /\ err = NoErr /\ cur_time > 0
  /\ JobsIn(Job_STARTED) # {} /\ JobsIn(Job_RESERVED) # {}
  /\ \E u \in InstantsAhead :
       /\ u \notin DOMAIN timeline
       /\ \E k \in DOMAIN timeline : k > u
       /\ FreeAt(u) # TotalResources

\* ------------------------------------------------------------------ C37
\* a step leaves every reservation where it was or earlier: the job is
\* still RESERVED, at a start time that is not later, or it has been
\* started at a time that is not later
ReservationsNotDelayed ==
  \A j \in JobsIn(Job_RESERVED) :
    /\ jobs'[j].state \in {Job_RESERVED, Job_STARTED, Job_FINISHED}
    /\ jobs'[j].start_time <= jobs[j].start_time
    /\ jobs'[j].state # Job_RESERVED => jobs'[j].start_time = cur_time'

\* C37 (backfilling never delays the head job): under easy_backfill with
\* runtimes between 1 and the time limit, a job RESERVED at start time s is
\* given a start time <= s by every later policy pass and is STARTED at a
\* time <= s, whatever is enqueued, backfilled, started or ended in
\* between.
C37_HeadNotDelayed ==
  [][(policy = easy_backfill /\ RuntimesWithinLimit /\ err' = NoErr)
       => ReservationsNotDelayed]_vars

\* a later job runs, backfilled, while the head of the queue holds its
\* reservation, and is due to end before that reservation starts
C37_Witness ==
  /\ policy = easy_backfill /\ RuntimesWithinLimit /\ err = NoErr
  /\ \E j \in JobsIn(Job_RESERVED) :
       \E b \in JobsIn(Job_STARTED) : b > j /\ jobs[b].deadline <= jobs[j].start_time

\* ------------------------------------------------------------------ C38
\* the members of the queue q
Members(q) == {q[i] : i \in 1..Len(q)}

\* no job is twice in the queue q
NoRepeats(q) == \A a, b \in 1..Len(q) : a # b => q[a] # q[b]

\* C38 (queue partition): once enqueue_job, a policy pass or handle_events
\* has returned, the PENDING jobs are exactly the members of pending_jobs,
\* the RESERVED jobs exactly the members of reserved_jobs and the FINISHED
\* jobs exactly the members of finished_jobs, each once, and the STARTED
\* jobs are in none of the three queues.
C38_QueuePartition ==
  err = NoErr =>
    /\ Members(pending_jobs) = JobsIn(Job_PENDING) /\ NoRepeats(pending_jobs)
    /\ Members(reserved_jobs) = JobsIn(Job_RESERVED) /\ NoRepeats(reserved_jobs)
    /\ Members(finished_jobs) = JobsIn(Job_FINISHED) /\ NoRepeats(finished_jobs)
    /\ \A j \in JobsIn(Job_STARTED) :
         j \notin Members(pending_jobs) \cup Members(reserved_jobs)
                    \cup Members(finished_jobs)

\* a policy pass has started a job, reserved one and left one PENDING
C38_Witness ==
  /\ err = NoErr /\ ~should_run_sched_loop
  /\ pending_jobs # <<>> /\ reserved_jobs # <<>>
  /\ JobsIn(Job_STARTED) # {}

\* ------------------------------------------------------------------ C39
\* the Systems that run(policy) can leave, one for each way of iterating
\* the sets of the keys it handles
RunResults == System_run(Sys, policy)

\* two Systems with the same clock and the same times of every job
SameTimes(a, b) ==
  /\ a.cur_time = b.cur_time
  /\ \A j \in JobIds :
       /\ a.jobs[j].start_time = b.jobs[j].start_time
       /\ a.jobs[j].end_time = b.jobs[j].end_time
       /\ a.jobs[j].deadline = b.jobs[j].deadline

\* C39 (order independence of results): for the same jobs, policy and
\* runtimes, the start_time, end_time and deadline of every job and the
\* final cur_time after run are the same whatever order handle_events
\* iterates the start, end and expired sets of a key in; so are the
\* results of a single handle_events call.
C39_OrderIndependent ==
  (err = NoErr /\ ~in_run) =>
    /\ \A a, b \in RunResults :
         (a.err = NoErr /\ b.err = NoErr) => SameTimes(a, b)
    /\ \A o1, o2 \in JobOrders :
         Bind(System_handle_events(Sys, o1).S, LAMBDA S1 :
         Bind(System_handle_events(Sys, o2).S, LAMBDA S2 :
           (S1.err = NoErr /\ S2.err = NoErr) =>
             SameTimes(S1, S2) /\ S1.timeline = S2.timeline))

\* run can end the jobs of one key in two orders: finished_jobs differs
\* between two of its results
C39_Witness ==
  /\ err = NoErr /\ ~in_run /\ jobs_enqueued = MaxJobs
  /\ \E a, b \in RunResults :
       /\ a.err = NoErr /\ b.err = NoErr
       /\ a.finished_jobs # b.finished_jobs
       /\ a.cur_time > 1

\* ------------------------------------------------------------------ C40
\* C40: the base Tree with the default TreeNode keeps the map contract
\* after any sequence of inserts and deletes, also after deleting a node
\* with exactly one child that has children of its own: the binary-search
\* order and the prev/next threading are preserved and items() yields the
\* reference's pairs in ascending key order.
C40_BaseTreeContract ==
  tree.cls = "TreeNode" =>
    /\ BSTOrdered(tree)
    /\ C7_Threading
    /\ Tree_items(tree, NIL, NIL, FALSE) = RefSorted(ref)

====
